---- MODULE Spec2Model ----
(***************************************************************************)
(* Localcrust: order lifecycle, checkout/payment handoff and review/reply  *)
(* workflow of the React client, together with the REST backend it calls.  *)
(*                                                                         *)
(* Every awaited network call is modelled in two steps: the handler issues *)
(* the request and suspends (a record in a bag of pending calls holding    *)
(* the handler's closure variables and the request it sent), and later the *)
(* request is processed by the backend and the handler resumes with the    *)
(* resolved or rejected promise.  Pending calls resolve in any order.      *)
(***************************************************************************)
EXTENDS Integers, Sequences, FiniteSets, Bags, TLC

VARIABLES
  dbOrders,      \* backend: sequence of Order records, index = order id
  dbAddress,     \* backend: the customer's saved address (FALSE: none)
  notified,      \* backend: outcome of the notification fired by the last
                 \* status transition ("none", "sent", "failed")
  cart,          \* MarketplaceView state `cart`, CheckoutView prop `cart`
  step,          \* CheckoutView state `step`
  loading,       \* CheckoutView state `loading`
  error,         \* CheckoutView state `error`
  orderId,       \* CheckoutView state `orderId`
  storedCart,    \* localStorage item 'cart' is present
  storedItems,   \* the parsed value of localStorage item 'cart' (<<>> when
                 \* the item is absent)
  showCheckout,  \* CartSidebar state `showCheckout`
  addrCalls,     \* pending saveAddress calls of handleAddressSubmit
  payCalls,      \* bag of suspended handlePayment invocations
  widgets,       \* bag of open Razorpay widgets (their options)
  payUpdCalls,   \* bag of suspended Razorpay success handlers
  orders,        \* BakerDashboardEnhanced state `orders`
  dashLoading,   \* BakerDashboardEnhanced state `loading`
  loadCalls,     \* number of pending loadDashboardData calls
  updCalls,      \* bag of suspended handleUpdateOrderStatus invocations
  dashAlert,     \* message of the last alert() of the dashboard ("": none)
  dbReviews,     \* backend: sequence of Review records, index = review id
  activeTab,     \* CustomerProfile state `activeTab`
  myOrders,      \* CustomerProfile state `orders`
  myReviews,     \* CustomerProfile state `reviews`
  profLoading,   \* CustomerProfile state `loading`
  profCalls,     \* bag of suspended loadProfileData invocations
  selectedOrder, \* CustomerProfile state `selectedOrder`
  showReviewModal, \* CustomerProfile state `showReviewModal`
  selectedProduct, \* ReviewModal state `selectedProduct` (1-based)
  rating,        \* ReviewModal state `rating`
  comment,       \* ReviewModal state `comment`
  submitting,    \* ReviewModal state `submitting`
  alerted,       \* message of the last alert() of the ReviewModal ("": none)
  reviewCalls,   \* bag of suspended ReviewModal.handleSubmit invocations
  reviews,       \* BakerReviewsManagement state `reviews`
  revLoading,    \* BakerReviewsManagement state `loading`
  replyingTo,    \* BakerReviewsManagement state `replyingTo` (0: null)
  replyText,     \* BakerReviewsManagement state `replyText`
  revSubmitting, \* BakerReviewsManagement state `submitting`
  fetchCalls,    \* pending fetchReviews calls of the mount effect
  filter,        \* BakerReviewsManagement state `filter`
  replyCalls,    \* bag of suspended handleReply invocations
  currentView,   \* App state `currentView`
  userType,      \* App state `userType` ("none": null)
  hash,          \* window.location.hash without the '#'
  alLoading,     \* AdminLogin state `loading`
  adminCalls,    \* bag of suspended AdminLogin.handleLogin invocations
  lvUserType,    \* LoginView state `userType`
  isLogin,       \* LoginView state `isLogin`
  showOtpLogin,  \* LoginView state `showOtpLogin`
  otpSent,       \* LoginView state `otpSent`
  email,         \* LoginView state `email`
  lvLoading,     \* LoginView state `loading`
  lvError,       \* LoginView state `error`
  showBakerRegistration, \* LoginView state `showBakerRegistration`
  otpCalls,      \* bag of suspended handleSendOtp invocations
  submitCalls,   \* bag of suspended LoginView.handleSubmit invocations
  otpAcked,      \* history: the email addresses whose OTP request succeeded
                 \* since OTP login mode was last entered
  dbNotifs,      \* backend: the customer's notifications, index = id
  showNotifications, \* MarketplaceView state `showNotifications`
  notifications, \* NotificationsPanel state `notifications`
  pnLoading,     \* NotificationsPanel state `loading`
  pnLoadCalls,   \* pending loadNotifications calls of the panel
  markCalls,     \* bag of suspended handleMarkAsRead invocations
  markAllCalls,  \* bag of suspended handleMarkAllAsRead invocations
  markedOk       \* history: ids whose mark-as-read request of the mounted
                 \* panel succeeded since `notifications` was last loaded

shopVars == <<dbOrders, dbAddress, notified, cart, step, loading, error, orderId, storedCart, storedItems,
              showCheckout,
              addrCalls, payCalls, widgets, payUpdCalls,
              orders, dashLoading, loadCalls, updCalls, dashAlert>>

profileVars == <<activeTab, myOrders, myReviews, profLoading, profCalls,
                 selectedOrder, showReviewModal>>

modalVars == <<selectedProduct, rating, comment, submitting, alerted>>

bakerReviewVars == <<reviews, revLoading, replyingTo, replyText, revSubmitting,
                     fetchCalls, filter, replyCalls>>

reviewSideVars == <<dbReviews, profileVars, modalVars, reviewCalls, bakerReviewVars>>

appVars == <<currentView, userType, hash, alLoading, adminCalls>>

loginVars == <<lvUserType, isLogin, showOtpLogin, otpSent, email, lvLoading,
               lvError, showBakerRegistration, otpCalls, submitCalls, otpAcked>>

panelVars == <<showNotifications, notifications, pnLoading, pnLoadCalls,
               markCalls, markAllCalls, markedOk>>

frontVars == <<appVars, loginVars, panelVars, dbNotifs>>

vars == <<shopVars, dbAddress, notified, reviewSideVars, frontVars>>

(***************************************************************************)
(* Bounds                                                                  *)
(***************************************************************************)
MaxOrders == 2      \* orders the backend holds
MaxCalls  == 2      \* pending calls of one kind
MaxQty    == 2      \* quantity of one cart line
NumProducts == 2    \* products in the catalogue
MaxShopOrders == 1  \* orders created in the composed specification
MaxAuthCalls == 1   \* pending calls of one kind of the login views
NumNotifs == 2      \* notifications the backend holds for the customer
MaxMarkCalls == 2   \* pending mark-as-read calls of one kind
MaxPanelLoads == 1  \* pending loadNotifications calls
MaxApiCalls == 1    \* pending updates when the handler is called freely
MaxReviews == 1     \* reviews the backend accepts
MaxReviewCalls == 1 \* pending review submissions
MaxBakerReviews == 2 \* reviews on the baker's reviews screen

(***************************************************************************)
(* Values                                                                  *)
(***************************************************************************)
Statuses == {"pending", "confirmed", "preparing", "ready",
             "out_for_delivery", "delivered", "cancelled"}

Terminal == {"delivered", "cancelled"}

ProductIds == 1..NumProducts

\* catalogue price of a product (Product.price)
Price(p) == IF p = 1 THEN 100 ELSE 50

BagSize(b) == BagCardinality(b)

BagAdd(b, e) == b (+) SetToBag({e})

BagRemove(b, e) == b (-) SetToBag({e})

(***************************************************************************)
(* Carts the checkout can be opened with: one line per product id, every   *)
(* quantity at least 1 (marketplace-view.tsx addToCart / updateQuantity).  *)
(***************************************************************************)
CartItem(p, q) == [product |-> [id |-> p, price |-> Price(p)], quantity |-> q]

Carts ==
  {<<CartItem(p, q)>> : p \in ProductIds, q \in 1..MaxQty}
  \cup {c \in {<<CartItem(p1, q1), CartItem(p2, q2)>> :
                  p1 \in ProductIds, p2 \in ProductIds,
                  q1 \in 1..MaxQty, q2 \in 1..MaxQty} :
          c[1].product.id # c[2].product.id}

RECURSIVE SumQtyIgnored(_, _)
\* variant of Reduce that adds the unit price once per line
SumQtyIgnored(c, sum) ==
  IF c = <<>> THEN sum
  ELSE SumQtyIgnored(Tail(c), sum + Head(c).product.price)

\* variant of getTotalPrice built on it
getTotalPriceQtyIgnored(c) == SumQtyIgnored(c, 0)

RECURSIVE Reduce(_, _)
\* cart.reduce((sum, item) => sum + item.product.price * item.quantity, sum0)
Reduce(c, sum) ==
  IF c = <<>> THEN sum
  ELSE Reduce(Tail(c), sum + Head(c).product.price * Head(c).quantity)

\* CheckoutView.getTotalPrice, on the cart of the render it closes over
getTotalPrice(c) == Reduce(c, 0)

\* the orderData handlePayment builds from its closure's cart
OrderData(c) ==
  [items |-> [i \in 1..Len(c) |->
                [product_id |-> c[i].product.id,
                 quantity   |-> c[i].quantity,
                 price      |-> c[i].product.price]],
   total_amount |-> getTotalPrice(c)]

\* orderAPI.createOrder: the POST /orders request carrying `data`
createOrder(data) == [method |-> "POST", url |-> "/orders", body |-> data]

\* orderAPI.updatePaymentStatus: the PUT /orders/{id}/payment request
updatePaymentStatus(id, paymentData) ==
  [method |-> "PUT", url |-> "/orders/payment", order |-> id, body |-> paymentData]

\* variant of updateOrderStatus that does not send a rollback or cancellation
updateOrderStatusLegalOnly(id, status) ==
  [method |-> "PUT", url |-> "/baker/orders/status", order |-> id,
   body |-> [status |-> IF status \in {"pending", "cancelled"}
                        THEN dbOrders[id].status ELSE status]]

\* bakerAPI.updateOrderStatus: the PUT /baker/orders/{id}/status request
updateOrderStatus(id, status) ==
  [method |-> "PUT", url |-> "/baker/orders/status", order |-> id,
   body |-> [status |-> status]]

(***************************************************************************)
(* Backend (Flask service behind the REST endpoints)                       *)
(***************************************************************************)
\* POST /orders: a new Order from the submitted snapshot; `ref` tells whether
\* the gateway issued an order reference for it
DbCreateOrder(data, ref) ==
  Append(dbOrders, [status            |-> "pending",
                    payment_status    |-> "pending",
                    items             |-> data.items,
                    total_amount      |-> data.total_amount,
                    razorpay_order_id |-> ref])

\* PUT /orders/{id}/payment
DbSetPayment(id, paymentData) ==
  [dbOrders EXCEPT ![id].payment_status = paymentData.payment_status]

\* PUT /baker/orders/{id}/status: persists the status it is given
DbSetStatus(id, body) == [dbOrders EXCEPT ![id].status = body.status]

\* the notification emitter is called after the transition is stored and its
\* failure is swallowed
DbNotify(sent) == IF sent THEN "sent" ELSE "failed"

\* variant of DbTransition that keeps the transition only when the
\* notification was sent
DbTransitionIfNotified(id, body, sent) ==
  IF sent THEN DbSetStatus(id, body) ELSE dbOrders

\* a status update as the backend handles it: the transition is stored
\* whether or not its notification is sent
DbTransition(id, body, sent) == DbSetStatus(id, body)

\* GET /baker/orders
DbBakerOrders == [i \in 1..Len(dbOrders) |-> [id |-> i, status |-> dbOrders[i].status]]

(***************************************************************************)
(* CheckoutView                                                            *)
(***************************************************************************)
checkoutVars == <<cart, step, loading, error, orderId, storedCart, storedItems,
                  addrCalls, payCalls, widgets, payUpdCalls>>

bakerVars == <<orders, dashLoading, loadCalls, updCalls, dashAlert>>

\* handleAddressSubmit up to `await saveAddress(address)`
handleAddressSubmit ==
  /\ step = "address"
  /\ widgets = EmptyBag
  /\ addrCalls < MaxCalls
  /\ error' = ""
  /\ addrCalls' = addrCalls + 1
  /\ UNCHANGED <<dbOrders, cart, step, loading, orderId, storedCart, storedItems,
                 payCalls, widgets, payUpdCalls, bakerVars, dbAddress, notified, reviewSideVars, showCheckout, frontVars>>

\* POST /customer/profile/address
DbSaveAddress(addressData) == addressData

\* saveAddress resolved; handleAddressSubmit resumes
saveAddressResolved ==
  /\ addrCalls > 0
  /\ addrCalls' = addrCalls - 1
  /\ dbAddress' = DbSaveAddress(TRUE)
  /\ step' = "payment"
  /\ UNCHANGED <<dbOrders, cart, loading, error, orderId, storedCart, storedItems,
                 payCalls, widgets, payUpdCalls, bakerVars, notified, reviewSideVars, showCheckout, frontVars>>

\* variant of saveAddressRejected in which the failure ends the submission
saveAddressRejectedBlocks ==
  /\ addrCalls > 0
  /\ addrCalls' = addrCalls - 1
  /\ UNCHANGED <<dbOrders, cart, step, loading, error, orderId, storedCart, storedItems,
                 payCalls, widgets, payUpdCalls, bakerVars, dbAddress, notified, reviewSideVars, showCheckout, frontVars>>

\* saveAddress rejected: its catch block logs to the console and returns;
\* handleAddressSubmit resumes
saveAddressRejected ==
  /\ addrCalls > 0
  /\ addrCalls' = addrCalls - 1
  /\ step' = "payment"
  /\ UNCHANGED <<dbOrders, cart, loading, error, orderId, storedCart, storedItems,
                 payCalls, widgets, payUpdCalls, bakerVars, dbAddress, notified, reviewSideVars, showCheckout, frontVars>>

\* "Change Address": setStep("address")
ChangeAddress ==
  /\ step = "payment"
  /\ widgets = EmptyBag
  /\ step' = "address"
  /\ UNCHANGED <<dbOrders, cart, loading, error, orderId, storedCart, storedItems,
                 addrCalls, payCalls, widgets, payUpdCalls, bakerVars, dbAddress, notified, reviewSideVars, showCheckout, frontVars>>

\* handlePayment up to `await loadRazorpayScript()`; the Pay button is
\* rendered at the payment step and disabled while `loading`
handlePayment ==
  /\ step = "payment"
  /\ ~loading
  /\ widgets = EmptyBag
  /\ BagSize(payCalls) < MaxCalls
  /\ loading' = TRUE
  /\ error' = ""
  /\ payCalls' = BagAdd(payCalls, [pc |-> "script", cart |-> cart])
  /\ UNCHANGED <<dbOrders, cart, step, orderId, storedCart, storedItems,
                 addrCalls, widgets, payUpdCalls, bakerVars, dbAddress, notified, reviewSideVars, showCheckout, frontVars>>

\* the script loaded: build orderData and call orderAPI.createOrder
ScriptLoaded(c) ==
  /\ BagIn(c, payCalls)
  /\ c.pc = "script"
  /\ payCalls' = BagAdd(BagRemove(payCalls, c),
                        [pc |-> "createOrder", cart |-> c.cart,
                         request |-> createOrder(OrderData(c.cart))])
  /\ UNCHANGED <<dbOrders, cart, step, loading, error, orderId, storedCart, storedItems,
                 addrCalls, widgets, payUpdCalls, bakerVars, dbAddress, notified, reviewSideVars, showCheckout, frontVars>>

\* the script failed to load: throw, catch, finally
ScriptFailed(c) ==
  /\ BagIn(c, payCalls)
  /\ c.pc = "script"
  /\ payCalls' = BagRemove(payCalls, c)
  /\ error' = "Failed to load Razorpay SDK"
  /\ loading' = FALSE
  /\ UNCHANGED <<dbOrders, cart, step, orderId, storedCart, storedItems,
                 addrCalls, widgets, payUpdCalls, bakerVars, dbAddress, notified, reviewSideVars, showCheckout, frontVars>>

\* createOrder rejected: catch, finally
CreateOrderRejected(c) ==
  /\ BagIn(c, payCalls)
  /\ c.pc = "createOrder"
  /\ payCalls' = BagRemove(payCalls, c)
  /\ error' = "Payment failed. Please try again."
  /\ loading' = FALSE
  /\ UNCHANGED <<dbOrders, cart, step, orderId, storedCart, storedItems,
                 addrCalls, widgets, payUpdCalls, bakerVars, dbAddress, notified, reviewSideVars, showCheckout, frontVars>>

\* the Razorpay options handlePayment builds for the created order
RazorpayOptions(order) == [order_id |-> order.razorpay_order_id, order |-> order]

\* variant of OpensWidget without the check of razorpay_order_id
OpensWidgetAlways(order) == TRUE

\* `if (!order.razorpay_order_id) throw`: the widget is opened only with a
\* gateway order reference
OpensWidget(order) == order.razorpay_order_id

\* createOrder resolved with the created order, with or without a gateway
\* order reference
CreateOrderResolved(c, ref) ==
  /\ BagIn(c, payCalls)
  /\ c.pc = "createOrder"
  /\ Len(dbOrders) < MaxOrders
  /\ dbOrders' = DbCreateOrder(c.request.body, ref)
  /\ payCalls' = BagRemove(payCalls, c)
  /\ LET order == [id |-> Len(dbOrders'), order_id |-> Len(dbOrders'),
                   razorpay_order_id |-> ref]
     IN IF OpensWidget(order)
        THEN /\ widgets' = BagAdd(widgets, RazorpayOptions(order))
             /\ error' = error
        ELSE /\ widgets' = widgets
             /\ error' = "Failed to create payment order. Please try again."
  /\ loading' = FALSE
  /\ UNCHANGED <<cart, step, orderId, storedCart, storedItems, addrCalls, payUpdCalls, bakerVars, dbAddress, notified, reviewSideVars, showCheckout, frontVars>>

\* the gateway reports success: options.handler runs up to
\* `await orderAPI.updatePaymentStatus(...)`
RazorpaySuccess(w) ==
  /\ BagIn(w, widgets)
  /\ widgets' = BagRemove(widgets, w)
  /\ payUpdCalls' = BagAdd(payUpdCalls,
       [order |-> w.order,
        request |-> updatePaymentStatus(w.order.id, [payment_status |-> "completed"])])
  /\ UNCHANGED <<dbOrders, cart, step, loading, error, orderId, storedCart, storedItems,
                 addrCalls, payCalls, bakerVars, dbAddress, notified, reviewSideVars, showCheckout, frontVars>>

\* options.modal.ondismiss
RazorpayDismiss(w) ==
  /\ BagIn(w, widgets)
  /\ widgets' = BagRemove(widgets, w)
  /\ loading' = FALSE
  /\ UNCHANGED <<dbOrders, cart, step, error, orderId, storedCart, storedItems,
                 addrCalls, payCalls, payUpdCalls, bakerVars, dbAddress, notified, reviewSideVars, showCheckout, frontVars>>

\* updatePaymentStatus resolved: the handler's try block completes
PaymentUpdateResolved(c) ==
  /\ BagIn(c, payUpdCalls)
  /\ payUpdCalls' = BagRemove(payUpdCalls, c)
  /\ dbOrders' = DbSetPayment(c.request.order, c.request.body)
  /\ orderId' = c.order.order_id
  /\ step' = "success"
  /\ storedCart' = FALSE
  /\ storedItems' = <<>>
  /\ UNCHANGED <<cart, loading, error, addrCalls, payCalls, widgets, bakerVars, dbAddress, notified, reviewSideVars, showCheckout, frontVars>>

\* variant of PaymentUpdateRejected that shows the success step all the same
PaymentUpdateRejectedShowsSuccess(c) ==
  /\ BagIn(c, payUpdCalls)
  /\ payUpdCalls' = BagRemove(payUpdCalls, c)
  /\ error' = "Payment verification failed. Please contact support."
  /\ orderId' = c.order.order_id
  /\ step' = "success"
  /\ UNCHANGED <<dbOrders, cart, loading, storedCart, storedItems,
                 addrCalls, payCalls, widgets, bakerVars, dbAddress, notified, reviewSideVars, showCheckout, frontVars>>

\* variant of PaymentUpdateRejected whose catch block cancels the order
PaymentUpdateRejectedCancelsOrder(c) ==
  /\ BagIn(c, payUpdCalls)
  /\ payUpdCalls' = BagRemove(payUpdCalls, c)
  /\ dbOrders' = DbSetStatus(c.request.order, [status |-> "cancelled"])
  /\ error' = "Payment verification failed. Please contact support."
  /\ UNCHANGED <<cart, step, loading, orderId, storedCart, storedItems,
                 addrCalls, payCalls, widgets, bakerVars, dbAddress, notified, reviewSideVars, showCheckout, frontVars>>

\* updatePaymentStatus rejected: the handler's catch block
PaymentUpdateRejected(c) ==
  /\ BagIn(c, payUpdCalls)
  /\ payUpdCalls' = BagRemove(payUpdCalls, c)
  /\ error' = "Payment verification failed. Please contact support."
  /\ UNCHANGED <<dbOrders, cart, step, loading, orderId, storedCart, storedItems,
                 addrCalls, payCalls, widgets, bakerVars, dbAddress, notified, reviewSideVars, showCheckout, frontVars>>

(***************************************************************************)
(* OrderSuccessView, CartSidebar and the cart of MarketplaceView           *)
(***************************************************************************)
\* the success view is on screen (CheckoutView: step === "success")
SuccessShown == showCheckout /\ step = "success"

\* no call of the mounted CheckoutView is pending
CheckoutIdle ==
  /\ addrCalls = 0
  /\ payCalls = EmptyBag
  /\ widgets = EmptyBag
  /\ payUpdCalls = EmptyBag

\* the CheckoutView leaves the screen; the next one mounts with fresh state
CheckoutUnmounted ==
  /\ showCheckout' = FALSE
  /\ step' = "address"
  /\ loading' = FALSE
  /\ error' = ""
  /\ orderId' = 0
  /\ addrCalls' = 0
  /\ payCalls' = EmptyBag
  /\ widgets' = EmptyBag
  /\ payUpdCalls' = EmptyBag

\* LoginView as mounted
LoginViewMounted ==
  /\ lvUserType' = "customer"
  /\ isLogin' = TRUE
  /\ showOtpLogin' = FALSE
  /\ otpSent' = FALSE
  /\ email' = ""
  /\ lvLoading' = FALSE
  /\ lvError' = ""
  /\ showBakerRegistration' = FALSE
  /\ otpAcked' = {}

\* AdminLogin as mounted
AdminLoginMounted == alLoading' = FALSE

\* MarketplaceView's notifications as mounted: the panel is closed
\* (showNotifications false), the NotificationsPanel has an empty list and
\* `loading` false; a load the old panel was waiting for has no effect left
PanelMounted ==
  /\ showNotifications' = FALSE
  /\ notifications' = <<>>
  /\ pnLoading' = FALSE
  /\ pnLoadCalls' = 0
  /\ markedOk' = {}

\* the page is loaded anew: App starts on the landing view, every pending
\* continuation of the old page is gone
PageLoaded ==
  /\ userType' = "none"
  /\ currentView' = "landing"
  /\ LoginViewMounted
  /\ AdminLoginMounted
  /\ otpCalls' = EmptyBag
  /\ submitCalls' = EmptyBag
  /\ adminCalls' = EmptyBag
  /\ PanelMounted
  /\ markCalls' = EmptyBag
  /\ markAllCalls' = EmptyBag

\* MarketplaceView.loadCartFromStorage on a cart state of []
loadCartFromStorage == IF storedCart THEN storedItems ELSE <<>>

\* OrderSuccessView.handleContinueShopping: onClose(), then
\* window.location.reload(). The page, its cart state and its pending
\* continuations are discarded; the storage is kept.
handleContinueShopping ==
  /\ SuccessShown
  /\ widgets = EmptyBag
  /\ CheckoutUnmounted
  /\ PageLoaded
  /\ cart' = <<>>
  /\ UNCHANGED <<storedCart, storedItems, hash, dbOrders, bakerVars, dbAddress, notified,
                 reviewSideVars, dbNotifs>>

\* "Back to Cart" of the CheckoutView (onBack: setShowCheckout(false)),
\* pressed while no call of the view is pending
onBack ==
  /\ showCheckout
  /\ step # "success"
  /\ CheckoutIdle
  /\ CheckoutUnmounted
  /\ UNCHANGED <<dbOrders, cart, storedCart, storedItems, bakerVars, dbAddress, notified,
                 reviewSideVars, frontVars>>

\* MarketplaceView.removeFromCart
removeFromCart(c, productId) ==
  SelectSeq(c, LAMBDA item : item.product.id # productId)

\* variant of updateQuantity that keeps a line whose quantity becomes 0
updateQuantityKeepsZero(c, productId, newQuantity) ==
  [i \in 1..Len(c) |->
     IF c[i].product.id = productId
     THEN [c[i] EXCEPT !.quantity = newQuantity]
     ELSE c[i]]

\* MarketplaceView.updateQuantity
updateQuantity(c, productId, newQuantity) ==
  IF newQuantity = 0
  THEN removeFromCart(c, productId)
  ELSE [i \in 1..Len(c) |->
          IF c[i].product.id = productId
          THEN [c[i] EXCEPT !.quantity = newQuantity]
          ELSE c[i]]

\* the cart state changes and the persistence effect stores it
setCart(c) ==
  /\ cart' = c
  /\ storedCart' = TRUE
  /\ storedItems' = c
  /\ UNCHANGED <<dbOrders, step, loading, error, orderId, showCheckout,
                 addrCalls, payCalls, widgets, payUpdCalls, bakerVars,
                 dbAddress, notified, reviewSideVars, frontVars>>

\* the minus button of line i of the CartSidebar
ClickMinus(i) ==
  /\ currentView = "marketplace"
  /\ ~showCheckout
  /\ i \in 1..Len(cart)
  /\ setCart(updateQuantity(cart, cart[i].product.id, cart[i].quantity - 1))

\* the plus button of line i of the CartSidebar
ClickPlus(i) ==
  /\ currentView = "marketplace"
  /\ ~showCheckout
  /\ i \in 1..Len(cart)
  /\ cart[i].quantity < MaxQty
  /\ setCart(updateQuantity(cart, cart[i].product.id, cart[i].quantity + 1))

\* the remove button of line i of the CartSidebar
ClickRemove(i) ==
  /\ currentView = "marketplace"
  /\ ~showCheckout
  /\ i \in 1..Len(cart)
  /\ setCart(removeFromCart(cart, cart[i].product.id))

\* MarketplaceView.getProductQuantityInCart
getProductQuantityInCart(c, productId) ==
  IF \E i \in 1..Len(c) : c[i].product.id = productId
  THEN c[CHOOSE i \in 1..Len(c) : c[i].product.id = productId].quantity
  ELSE 0

\* variant of addToCart that always appends a line
addToCartAppends(c, p) == Append(c, CartItem(p, 1))

\* MarketplaceView.addToCart
addToCart(c, p) ==
  IF \E i \in 1..Len(c) : c[i].product.id = p
  THEN [i \in 1..Len(c) |->
          IF c[i].product.id = p
          THEN [c[i] EXCEPT !.quantity = c[i].quantity + 1]
          ELSE c[i]]
  ELSE Append(c, CartItem(p, 1))

\* "Add to Cart" of the product grid and the product modal (shown while the
\* product is not in the cart) and of the wishlist (always shown)
AddToCart(p) ==
  /\ currentView = "marketplace"
  /\ ~showCheckout
  /\ getProductQuantityInCart(cart, p) < MaxQty
  /\ setCart(addToCart(cart, p))

\* the minus button of product p in the grid and in the product modal
GridMinus(p) ==
  /\ currentView = "marketplace"
  /\ ~showCheckout
  /\ getProductQuantityInCart(cart, p) # 0
  /\ setCart(updateQuantity(cart, p, getProductQuantityInCart(cart, p) - 1))

\* the plus button of product p in the grid and in the product modal
GridPlus(p) ==
  /\ currentView = "marketplace"
  /\ ~showCheckout
  /\ getProductQuantityInCart(cart, p) # 0
  /\ getProductQuantityInCart(cart, p) < MaxQty
  /\ setCart(updateQuantity(cart, p, getProductQuantityInCart(cart, p) + 1))

\* "Proceed to Checkout" of the CartSidebar, shown for a cart with lines
ProceedToCheckout ==
  /\ currentView = "marketplace"
  /\ ~showCheckout
  /\ Len(cart) > 0
  /\ showCheckout' = TRUE
  /\ UNCHANGED <<dbOrders, cart, step, loading, error, orderId, storedCart, storedItems,
                 addrCalls, payCalls, widgets, payUpdCalls, bakerVars,
                 dbAddress, notified, reviewSideVars, frontVars>>

(***************************************************************************)
(* BakerDashboardEnhanced: orders tab                                      *)
(***************************************************************************)
\* variant of NextButton that also offers a button on a delivered order
NextButtonAnyStatus(status) ==
  CASE status = "pending"          -> "confirmed"
    [] status = "confirmed"        -> "preparing"
    [] status = "preparing"        -> "ready"
    [] status = "ready"            -> "out_for_delivery"
    [] status = "out_for_delivery" -> "delivered"
    [] status = "delivered"        -> "pending"
    [] OTHER                       -> "none"

\* variant of NextButton without the Delivered button
NextButtonNoDelivered(status) ==
  CASE status = "pending"          -> "confirmed"
    [] status = "confirmed"        -> "preparing"
    [] status = "preparing"        -> "ready"
    [] status = "ready"            -> "out_for_delivery"
    [] OTHER                       -> "none"

\* the status the action button rendered for an order of `status` sends
\* ("none": no button is rendered)
NextButton(status) ==
  CASE status = "pending"          -> "confirmed"
    [] status = "confirmed"        -> "preparing"
    [] status = "preparing"        -> "ready"
    [] status = "ready"            -> "out_for_delivery"
    [] status = "out_for_delivery" -> "delivered"
    [] OTHER                       -> "none"

\* variant of handleUpdateOrderStatus that sends the update a second time
handleUpdateOrderStatusTwice(id, status) ==
  /\ BagSize(updCalls) < MaxCalls
  /\ LET call == [orderId |-> id, status |-> status,
                  request |-> updateOrderStatus(id, status)]
     IN updCalls' = BagAdd(BagAdd(updCalls, call), call)
  /\ UNCHANGED <<dbOrders, checkoutVars, orders, dashLoading, loadCalls, dbAddress, dashAlert, notified, reviewSideVars, showCheckout, frontVars>>

\* handleUpdateOrderStatus up to `await bakerAPI.updateOrderStatus(...)`
handleUpdateOrderStatus(id, status) ==
  /\ BagSize(updCalls) < MaxCalls
  /\ updCalls' = BagAdd(updCalls, [orderId |-> id, status |-> status,
                                   request |-> updateOrderStatus(id, status)])
  /\ UNCHANGED <<dbOrders, checkoutVars, orders, dashLoading, loadCalls, dbAddress, dashAlert, notified, reviewSideVars, showCheckout, frontVars>>

\* a click on the status button rendered for the i-th displayed order
ClickStatusButton(i) ==
  /\ ~dashLoading
  /\ i \in DOMAIN orders
  /\ NextButton(orders[i].status) # "none"
  /\ handleUpdateOrderStatus(orders[i].id, NextButton(orders[i].status))

\* the update resolved: handleUpdateOrderStatus calls loadDashboardData,
\* which runs up to its `await Promise.all(...)`
UpdateOrderStatusResolved(c) ==
  /\ BagIn(c, updCalls)
  /\ loadCalls < MaxCalls
  /\ updCalls' = BagRemove(updCalls, c)
  /\ \E sent \in BOOLEAN :
       /\ dbOrders' = DbTransition(c.request.order, c.request.body, sent)
       /\ notified' = DbNotify(sent)
  /\ dashLoading' = TRUE
  /\ loadCalls' = loadCalls + 1
  /\ UNCHANGED <<checkoutVars, orders, dbAddress, dashAlert, reviewSideVars, showCheckout, frontVars>>

\* the update rejected: console.error and alert
UpdateOrderStatusRejected(c) ==
  /\ BagIn(c, updCalls)
  /\ updCalls' = BagRemove(updCalls, c)
  /\ dashAlert' = "Failed to update order status"
  /\ UNCHANGED <<dbOrders, checkoutVars, orders, dashLoading, loadCalls, dbAddress,
                 notified, reviewSideVars, showCheckout, frontVars>>

\* loadDashboardData resolved: setOrders(ordersData.orders), finally
LoadDashboardResolved ==
  /\ loadCalls > 0
  /\ loadCalls' = loadCalls - 1
  /\ orders' = DbBakerOrders
  /\ dashLoading' = FALSE
  /\ UNCHANGED <<dbOrders, checkoutVars, updCalls, dbAddress, dashAlert, notified, reviewSideVars, showCheckout, frontVars>>

\* loadDashboardData rejected: catch, finally
LoadDashboardRejected ==
  /\ loadCalls > 0
  /\ loadCalls' = loadCalls - 1
  /\ dashLoading' = FALSE
  /\ UNCHANGED <<dbOrders, checkoutVars, orders, updCalls, dbAddress, dashAlert, notified, reviewSideVars, showCheckout, frontVars>>

(***************************************************************************)
(* Backend: reviews                                                        *)
(***************************************************************************)
\* POST /orders/{id}/review: a new Review, not yet replied to
DbAddReview(id, body) ==
  Append(dbReviews, [order      |-> id,
                     product_id |-> body.product_id,
                     rating     |-> body.rating,
                     comment    |-> body.comment,
                     baker_reply |-> ""])

\* POST /baker/reviews/{id}/reply
DbReply(id, body) == [dbReviews EXCEPT ![id].baker_reply = body.reply]

\* GET /orders/my-orders
DbMyOrders == [i \in 1..Len(dbOrders) |-> [id |-> i, status |-> dbOrders[i].status]]

\* GET /reviews/my-reviews and GET /baker/reviews
DbReviews ==
  [i \in 1..Len(dbReviews) |->
     [id |-> i, order |-> dbReviews[i].order, product_id |-> dbReviews[i].product_id,
      rating |-> dbReviews[i].rating, baker_reply |-> dbReviews[i].baker_reply]]

(***************************************************************************)
(* CustomerProfile and ReviewModal                                         *)
(***************************************************************************)
NoOrder == [id |-> 0, status |-> "none"]

Tabs == {"orders", "reviews"}

\* what the comment textarea can hold
Comments == {"", " ", " ok "}

\* String.prototype.trim
Trim(str) ==
  CASE str = " "    -> ""
    [] str = " ok " -> "ok"
    [] OTHER        -> str

\* the ReviewModal state of a fresh mount
ModalMounted ==
  /\ selectedProduct' = 1
  /\ rating' = 0
  /\ comment' = ""
  /\ submitting' = FALSE

\* setActiveTab(tab): the effect on [activeTab] calls loadProfileData, which
\* runs up to its first await
SetActiveTab(tab) ==
  /\ ~showReviewModal
  /\ tab # activeTab
  /\ BagSize(profCalls) < MaxCalls
  /\ activeTab' = tab
  /\ profLoading' = TRUE
  /\ profCalls' = BagAdd(profCalls, [tab |-> tab])
  /\ UNCHANGED <<shopVars, frontVars, dbReviews, myOrders, myReviews, selectedOrder,
                 showReviewModal, modalVars, reviewCalls, bakerReviewVars>>

\* variant of ProfileLoadResolved that stores the orders on every tab
ProfileLoadResolvedOrdersOnly(c) ==
  /\ BagIn(c, profCalls)
  /\ profCalls' = BagRemove(profCalls, c)
  /\ myOrders' = DbMyOrders
  /\ myReviews' = myReviews
  /\ profLoading' = FALSE
  /\ UNCHANGED <<shopVars, frontVars, dbReviews, activeTab, selectedOrder,
                 showReviewModal, modalVars, reviewCalls, bakerReviewVars>>

\* loadProfileData resolved: setOrders or setReviews, finally
ProfileLoadResolved(c) ==
  /\ BagIn(c, profCalls)
  /\ profCalls' = BagRemove(profCalls, c)
  /\ IF c.tab = "orders"
     THEN myOrders' = DbMyOrders /\ myReviews' = myReviews
     ELSE myReviews' = DbReviews /\ myOrders' = myOrders
  /\ profLoading' = FALSE
  /\ UNCHANGED <<shopVars, frontVars, dbReviews, activeTab, selectedOrder,
                 showReviewModal, modalVars, reviewCalls, bakerReviewVars>>

\* loadProfileData rejected: catch, finally
ProfileLoadRejected(c) ==
  /\ BagIn(c, profCalls)
  /\ profCalls' = BagRemove(profCalls, c)
  /\ profLoading' = FALSE
  /\ UNCHANGED <<shopVars, frontVars, dbReviews, activeTab, myOrders, myReviews, selectedOrder,
                 showReviewModal, modalVars, reviewCalls, bakerReviewVars>>

\* the orders list is rendered on the orders tab when not loading; an open
\* ReviewModal covers it
OrdersListed == ~profLoading /\ activeTab = "orders" /\ ~showReviewModal

\* "Track Order": setSelectedOrder(order)
TrackOrder(i) ==
  /\ OrdersListed
  /\ i \in DOMAIN myOrders
  /\ selectedOrder' = myOrders[i]
  /\ UNCHANGED <<shopVars, frontVars, dbReviews, activeTab, myOrders, myReviews, profLoading,
                 profCalls, showReviewModal, modalVars, reviewCalls, bakerReviewVars>>

\* variant of OffersWriteReview that offers the button on every order
OffersWriteReviewAlways(order) == TRUE

\* `order.status === 'delivered' &&` around the Write Review button
OffersWriteReview(order) == order.status = "delivered"

\* "Write Review": setSelectedOrder(order); setShowReviewModal(true); the
\* ReviewModal mounts
WriteReview(i) ==
  /\ OrdersListed
  /\ i \in DOMAIN myOrders
  /\ OffersWriteReview(myOrders[i])
  /\ selectedOrder' = myOrders[i]
  /\ showReviewModal' = TRUE
  /\ ModalMounted
  /\ UNCHANGED <<shopVars, frontVars, dbReviews, activeTab, myOrders, myReviews, profLoading,
                 profCalls, alerted, reviewCalls, bakerReviewVars>>

\* the modal is rendered when showReviewModal && selectedOrder
ModalOpen == showReviewModal /\ selectedOrder # NoOrder

\* a pending handleSubmit whose ReviewModal has unmounted
Orphaned(calls) ==
  LET S == BagToSet(calls)
      O(c) == [c EXCEPT !.mounted = FALSE]
  IN [d \in {O(c) : c \in S} |->
        LET P == {c \in S : O(c) = d}
            RECURSIVE Total(_)
            Total(Q) == IF Q = {} THEN 0
                        ELSE LET q == CHOOSE x \in Q : TRUE
                             IN calls[q] + Total(Q \ {q})
        IN Total(P)]

\* onClose: setShowReviewModal(false); setSelectedOrder(null); the
\* ReviewModal unmounts (the close button and the backdrop are never disabled)
CloseModal ==
  /\ ModalOpen
  /\ showReviewModal' = FALSE
  /\ selectedOrder' = NoOrder
  /\ ModalMounted
  /\ reviewCalls' = Orphaned(reviewCalls)
  /\ UNCHANGED <<shopVars, frontVars, dbReviews, activeTab, myOrders, myReviews, profLoading,
                 profCalls, alerted, bakerReviewVars>>

\* a star button: setRating(star)
SetRating(star) ==
  /\ ModalOpen
  /\ rating' = star
  /\ UNCHANGED <<shopVars, frontVars, dbReviews, profileVars, selectedProduct, comment,
                 submitting, alerted, reviewCalls, bakerReviewVars>>

\* the textarea: setComment(e.target.value)
SetComment(text) ==
  /\ ModalOpen
  /\ comment' = text
  /\ UNCHANGED <<shopVars, frontVars, dbReviews, profileVars, selectedProduct, rating,
                 submitting, alerted, reviewCalls, bakerReviewVars>>

\* a product button: setSelectedProduct(index)
SetSelectedProduct(index) ==
  /\ ModalOpen
  /\ index \in 1..Len(dbOrders[selectedOrder.id].items)
  /\ selectedProduct' = index
  /\ UNCHANGED <<shopVars, frontVars, dbReviews, profileVars, rating, comment,
                 submitting, alerted, reviewCalls, bakerReviewVars>>

\* variant of RatingSelected that lets the unset rating through
RatingSelectedAlways(r) == TRUE

\* `if (rating === 0) { alert(...); return; }`
RatingSelected(r) == r # 0

\* ReviewModal.handleSubmit up to `await apiCall('/orders/{id}/review')`;
\* the Submit button is disabled while `submitting`
handleSubmit ==
  /\ ModalOpen
  /\ ~submitting
  /\ BagSize(reviewCalls) < MaxReviewCalls
  /\ LET product == dbOrders[selectedOrder.id].items[selectedProduct]
     IN IF ~RatingSelected(rating)
        THEN /\ alerted' = "Please select a rating"
             /\ UNCHANGED <<submitting, reviewCalls>>
        ELSE IF Trim(comment) = ""
        THEN /\ alerted' = "Please write a comment"
             /\ UNCHANGED <<submitting, reviewCalls>>
        ELSE /\ submitting' = TRUE
             /\ reviewCalls' = BagAdd(reviewCalls,
                  [order |-> selectedOrder, mounted |-> TRUE,
                   request |-> [method |-> "POST", url |-> "/orders/review",
                                order |-> selectedOrder.id,
                                body |-> [product_id |-> product.product_id,
                                          rating     |-> rating,
                                          comment    |-> Trim(comment)]]])
             /\ alerted' = alerted
  /\ UNCHANGED <<shopVars, frontVars, dbReviews, profileVars, selectedProduct, rating,
                 comment, bakerReviewVars>>

\* the review was accepted: alert, onSuccess() (loadProfileData of the orders
\* tab), onClose(), the form resets, finally
ReviewResolved(c) ==
  /\ BagIn(c, reviewCalls)
  /\ Len(dbReviews) < MaxReviews
  /\ BagSize(profCalls) < MaxCalls
  /\ dbReviews' = DbAddReview(c.request.order, c.request.body)
  /\ reviewCalls' = Orphaned(BagRemove(reviewCalls, c))
  /\ profLoading' = TRUE
  /\ profCalls' = BagAdd(profCalls, [tab |-> "orders"])
  /\ showReviewModal' = FALSE
  /\ selectedOrder' = NoOrder
  /\ ModalMounted
  /\ alerted' = "Review submitted successfully!"
  /\ UNCHANGED <<shopVars, frontVars, activeTab, myOrders, myReviews, bakerReviewVars>>

\* the review was rejected: alert, finally setSubmitting(false)
ReviewRejected(c) ==
  /\ BagIn(c, reviewCalls)
  /\ reviewCalls' = BagRemove(reviewCalls, c)
  /\ submitting' = IF c.mounted THEN FALSE ELSE submitting
  /\ alerted' = "Failed to submit review. Please try again."
  /\ UNCHANGED <<shopVars, frontVars, dbReviews, profileVars, selectedProduct, rating,
                 comment, bakerReviewVars>>

\* the baker's dashboard advances the order: the offered update is sent
\* for the order's current status and persisted
BakerAdvancesOrder(id) ==
  /\ id \in 1..Len(dbOrders)
  /\ NextButton(dbOrders[id].status) # "none"
  /\ \E sent \in BOOLEAN :
       /\ dbOrders' = DbTransition(id, updateOrderStatus(id, NextButton(dbOrders[id].status)).body, sent)
       /\ notified' = DbNotify(sent)
  /\ UNCHANGED <<checkoutVars, bakerVars, dbAddress, reviewSideVars, showCheckout, frontVars>>

(***************************************************************************)
(* BakerReviewsManagement                                                  *)
(***************************************************************************)
customerVars == <<profileVars, modalVars, reviewCalls>>

\* what the reply textarea can hold
ReplyTexts == {"", " ", " ok ", "no"}

\* fetchReviews: `has_reply: Boolean(review.baker_reply)` on every review
reviewsWithCorrectFlag(data) ==
  [i \in DOMAIN data |->
     [id |-> data[i].id, rating |-> data[i].rating,
      baker_reply |-> data[i].baker_reply,
      has_reply |-> data[i].baker_reply # ""]]

\* variant of updatedReviews that sets the flag and forgets the reply text
updatedReviewsFlagOnly(closure, reviewId, response) ==
  [i \in DOMAIN closure |->
     IF closure[i].id = reviewId
     THEN [closure[i] EXCEPT !.has_reply = TRUE]
     ELSE closure[i]]

\* handleReply: the review is updated in the reviews of the handler's closure
updatedReviews(closure, reviewId, response) ==
  [i \in DOMAIN closure |->
     IF closure[i].id = reviewId
     THEN [closure[i] EXCEPT !.baker_reply = response.baker_reply, !.has_reply = TRUE]
     ELSE closure[i]]

\* `reviews.filter(r => !Boolean(r.baker_reply)).length`
pendingCount == Cardinality({i \in DOMAIN reviews : reviews[i].baker_reply = ""})

\* `reviews.filter(r => Boolean(r.baker_reply)).length`
repliedCount == Cardinality({i \in DOMAIN reviews : reviews[i].baker_reply # ""})

\* the mount effect's fetchReviews resolved: setReviews, finally
FetchReviewsResolved ==
  /\ fetchCalls > 0
  /\ fetchCalls' = fetchCalls - 1
  /\ reviews' = reviewsWithCorrectFlag(DbReviews)
  /\ revLoading' = FALSE
  /\ UNCHANGED <<shopVars, frontVars, dbReviews, customerVars, replyingTo, replyText,
                 revSubmitting, replyCalls, filter>>

\* the mount effect's fetchReviews rejected: alert, finally
FetchReviewsRejected ==
  /\ fetchCalls > 0
  /\ fetchCalls' = fetchCalls - 1
  /\ revLoading' = FALSE
  /\ UNCHANGED <<shopVars, frontVars, dbReviews, customerVars, reviews, replyingTo, replyText,
                 revSubmitting, replyCalls, filter>>

\* variant of ShowsReplyForm that keeps the reply form on replied reviews
ShowsReplyFormAlways(review) == TRUE

\* `{!review.has_reply && (` around the reply form
ShowsReplyForm(review) == ~review.has_reply

\* filteredReviews: the reviews that pass the filter buttons
Filtered(review) ==
  CASE filter = "pending" -> review.baker_reply = ""
    [] filter = "replied" -> review.baker_reply # ""
    [] OTHER              -> TRUE

\* the cards of filteredReviews are rendered when not loading
Listed(id) ==
  /\ ~revLoading
  /\ id \in DOMAIN reviews
  /\ Filtered(reviews[id])
  /\ ShowsReplyForm(reviews[id])

\* the filter buttons: setFilter(f)
SetFilter(f) ==
  /\ ~revLoading
  /\ filter # f
  /\ filter' = f
  /\ UNCHANGED <<shopVars, frontVars, dbReviews, customerVars, reviews, revLoading, replyingTo,
                 replyText, revSubmitting, fetchCalls, replyCalls>>

\* "Reply to Customer": setReplyingTo(review.id)
ReplyToCustomer(id) ==
  /\ Listed(id)
  /\ replyingTo # id
  /\ replyingTo' = id
  /\ UNCHANGED <<shopVars, frontVars, dbReviews, customerVars, reviews, revLoading, replyText,
                 revSubmitting, fetchCalls, replyCalls, filter>>

\* the reply textarea: setReplyText(e.target.value)
SetReplyText(text) ==
  /\ Listed(replyingTo)
  /\ replyText' = text
  /\ UNCHANGED <<shopVars, frontVars, dbReviews, customerVars, reviews, revLoading, replyingTo,
                 revSubmitting, fetchCalls, replyCalls, filter>>

\* "Cancel" (disabled while submitting): setReplyingTo(null); setReplyText('')
CancelReply ==
  /\ Listed(replyingTo)
  /\ ~revSubmitting
  /\ replyingTo' = 0
  /\ replyText' = ""
  /\ UNCHANGED <<shopVars, frontVars, dbReviews, customerVars, reviews, revLoading,
                 revSubmitting, fetchCalls, replyCalls, filter>>

\* replyToReview request of handleReply
replyRequest(reviewId, text) ==
  [method |-> "POST", url |-> "/baker/reviews/reply", review |-> reviewId,
   body |-> [reply |-> text]]

\* "Post Reply" (disabled while submitting): handleReply(review.id) up to
\* `await apiCall('/baker/reviews/{id}/reply')`
handleReply(reviewId) ==
  /\ Listed(reviewId)
  /\ replyingTo = reviewId
  /\ ~revSubmitting
  /\ BagSize(replyCalls) < MaxCalls
  /\ IF Trim(replyText) = ""
     THEN UNCHANGED <<revSubmitting, replyCalls>>
     ELSE /\ revSubmitting' = TRUE
          /\ replyCalls' = BagAdd(replyCalls,
               [pc |-> "post", reviewId |-> reviewId, reviews |-> reviews,
                mounted |-> TRUE,
                request |-> replyRequest(reviewId, replyText)])
  /\ UNCHANGED <<shopVars, frontVars, dbReviews, customerVars, reviews, revLoading, replyingTo,
                 replyText, fetchCalls, filter>>

\* the reply was accepted: setReviews(updatedReviews), alert, the form
\* closes, and fetchReviews runs up to its await (state updates of an
\* unmounted component are dropped)
ReplyResolved(c) ==
  /\ BagIn(c, replyCalls)
  /\ c.pc = "post"
  /\ dbReviews' = DbReply(c.request.review, c.request.body)
  /\ IF c.mounted
     THEN /\ reviews' = updatedReviews(c.reviews, c.reviewId, dbReviews'[c.request.review])
          /\ replyingTo' = 0
          /\ replyText' = ""
          /\ revLoading' = TRUE
     ELSE UNCHANGED <<reviews, replyingTo, replyText, revLoading>>
  /\ replyCalls' = BagAdd(BagRemove(replyCalls, c), [c EXCEPT !.pc = "fetchReviews"])
  /\ UNCHANGED <<shopVars, frontVars, customerVars, revSubmitting, fetchCalls, filter>>

\* the reply was rejected: alert, finally setSubmitting(false)
ReplyRejected(c) ==
  /\ BagIn(c, replyCalls)
  /\ c.pc = "post"
  /\ replyCalls' = BagRemove(replyCalls, c)
  /\ revSubmitting' = IF c.mounted THEN FALSE ELSE revSubmitting
  /\ UNCHANGED <<shopVars, frontVars, dbReviews, customerVars, reviews, revLoading, replyingTo,
                 replyText, fetchCalls, filter>>

\* `await fetchReviews()` of handleReply resolved; fetchStats runs up to its
\* await
ReplyFetchReviewsResolved(c) ==
  /\ BagIn(c, replyCalls)
  /\ c.pc = "fetchReviews"
  /\ IF c.mounted
     THEN /\ reviews' = reviewsWithCorrectFlag(DbReviews)
          /\ revLoading' = FALSE
     ELSE UNCHANGED <<reviews, revLoading>>
  /\ replyCalls' = BagAdd(BagRemove(replyCalls, c), [c EXCEPT !.pc = "fetchStats"])
  /\ UNCHANGED <<shopVars, frontVars, dbReviews, customerVars, replyingTo, replyText,
                 revSubmitting, fetchCalls, filter>>

\* `await fetchReviews()` of handleReply failed: fetchReviews catches, alerts
\* and returns
ReplyFetchReviewsRejected(c) ==
  /\ BagIn(c, replyCalls)
  /\ c.pc = "fetchReviews"
  /\ revLoading' = IF c.mounted THEN FALSE ELSE revLoading
  /\ replyCalls' = BagAdd(BagRemove(replyCalls, c), [c EXCEPT !.pc = "fetchStats"])
  /\ UNCHANGED <<shopVars, frontVars, dbReviews, customerVars, reviews, replyingTo, replyText,
                 revSubmitting, fetchCalls, filter>>

\* `await fetchStats()` of handleReply settled (fetchStats catches its own
\* errors): finally setSubmitting(false)
ReplyFetchStatsSettled(c) ==
  /\ BagIn(c, replyCalls)
  /\ c.pc = "fetchStats"
  /\ replyCalls' = BagRemove(replyCalls, c)
  /\ revSubmitting' = IF c.mounted THEN FALSE ELSE revSubmitting
  /\ UNCHANGED <<shopVars, frontVars, dbReviews, customerVars, reviews, revLoading, replyingTo,
                 replyText, fetchCalls, filter>>

\* the baker leaves the dashboard's Reviews tab and returns to it:
\* BakerReviewsManagement unmounts, and a new one mounts with its initial
\* state and calls fetchReviews; handlers of the old one keep running
ReopenReviewsTab ==
  /\ reviews' = <<>>
  /\ revLoading' = TRUE
  /\ replyingTo' = 0
  /\ replyText' = ""
  /\ revSubmitting' = FALSE
  /\ filter' = "all"
  /\ fetchCalls' = 1
  /\ replyCalls' = Orphaned(replyCalls)
  /\ UNCHANGED <<shopVars, frontVars, dbReviews, customerVars>>

(***************************************************************************)
(* App: views, user type and hash navigation                               *)
(***************************************************************************)
Views == {"landing", "onboarding", "login", "marketplace", "baker-dashboard",
          "baker-profile", "admin-login", "admin-dashboard"}

\* AuthResponse.user.user_type
LoginTypes == {"customer", "baker"}

\* fragments the address bar can hold
Hashes == {"", "profile", "dashboard"}

\* what the email input can hold
Emails == {"", "a@x", "b@x"}

\* variant of handleHashChange that does not look at the user type
handleHashChangeAnyUser(h, type, view) ==
  IF h = "profile" THEN "baker-profile"
  ELSE IF h = "dashboard" THEN "baker-dashboard"
  ELSE view

\* handleHashChange: the view it leaves for hash h and user type `type`
handleHashChange(h, type, view) ==
  IF h = "profile" /\ type = "baker" THEN "baker-profile"
  ELSE IF h = "dashboard" /\ type = "baker" THEN "baker-dashboard"
  ELSE view

\* MarketplaceView mounts: its effects load the cart from the storage and
\* store the cart; the CartSidebar starts without a checkout
MarketplaceMounted ==
  /\ cart' = loadCartFromStorage
  /\ storedCart' = TRUE
  /\ storedItems' = loadCartFromStorage
  /\ CheckoutUnmounted

\* MarketplaceView leaves the screen with its cart state and its checkout
MarketplaceUnmounted ==
  /\ cart' = <<>>
  /\ CheckoutUnmounted
  /\ UNCHANGED <<storedCart, storedItems>>

\* the state of the LoginView without its pending calls
lvState == <<lvUserType, isLogin, showOtpLogin, otpSent, email, lvLoading,
             lvError, showBakerRegistration, otpAcked>>

\* what showing view `to` instead of view `from` mounts and unmounts; oc, sc
\* and ac are the pending calls of handleSendOtp, LoginView.handleSubmit and
\* AdminLogin.handleLogin
ViewChanged(from, to, oc, sc, ac) ==
  /\ IF from # to /\ (from = "login" \/ to = "login")
     THEN /\ LoginViewMounted
          /\ otpCalls' = Orphaned(oc)
          /\ submitCalls' = Orphaned(sc)
     ELSE /\ UNCHANGED lvState
          /\ otpCalls' = oc
          /\ submitCalls' = sc
  /\ IF from # to /\ (from = "admin-login" \/ to = "admin-login")
     THEN /\ AdminLoginMounted
          /\ adminCalls' = Orphaned(ac)
     ELSE /\ UNCHANGED alLoading
          /\ adminCalls' = ac
  /\ IF from # to /\ to = "marketplace" THEN MarketplaceMounted
     ELSE IF from # to /\ from = "marketplace" THEN MarketplaceUnmounted
     ELSE UNCHANGED <<checkoutVars, showCheckout>>
  /\ IF from # to /\ (from = "marketplace" \/ to = "marketplace")
     THEN /\ PanelMounted
          /\ markCalls' = Orphaned(markCalls)
          /\ markAllCalls' = Orphaned(markAllCalls)
     ELSE UNCHANGED panelVars

\* the rest of the state, which no App or LoginView step touches
backendVars == <<dbOrders, dbAddress, notified, bakerVars, reviewSideVars,
                 dbNotifs>>

\* handleNavigateToLogin, from the landing view
handleNavigateToLogin ==
  /\ currentView = "landing"
  /\ currentView' = "login"
  /\ ViewChanged(currentView, "login", otpCalls, submitCalls, adminCalls)
  /\ UNCHANGED <<userType, hash, backendVars>>

\* handleNavigateToAdminLogin, from the landing view
handleNavigateToAdminLogin ==
  /\ currentView = "landing"
  /\ currentView' = "admin-login"
  /\ ViewChanged(currentView, "admin-login", otpCalls, submitCalls, adminCalls)
  /\ UNCHANGED <<userType, hash, backendVars>>

\* the view App shows after setUserType(type) and setCurrentView(view): the
\* effect on [userType] runs handleHashChange when the user type changed
AfterUserType(type, view) ==
  IF type # userType THEN handleHashChange(hash, type, view) ELSE view

\* handleLogin, called while oc, sc and ac are pending
handleLogin(type, oc, sc, ac) ==
  LET view == AfterUserType(type, IF type = "customer" THEN "marketplace"
                                  ELSE "baker-dashboard")
  IN /\ userType' = type
     /\ currentView' = view
     /\ ViewChanged(currentView, view, oc, sc, ac)
     /\ UNCHANGED hash

\* handleAdminLoginSuccess, called while oc, sc and ac are pending
handleAdminLoginSuccess(oc, sc, ac) ==
  LET view == AfterUserType("admin", "admin-dashboard")
  IN /\ userType' = "admin"
     /\ currentView' = view
     /\ ViewChanged(currentView, view, oc, sc, ac)
     /\ UNCHANGED hash

\* handleLogout, the onLogout of the baker and admin views
handleLogout ==
  /\ currentView \in {"baker-dashboard", "baker-profile", "admin-dashboard"}
  /\ userType' = "none"
  /\ currentView' = "landing"
  /\ ViewChanged(currentView, "landing", otpCalls, submitCalls, adminCalls)
  /\ UNCHANGED <<hash, backendVars>>

\* MarketplaceView.handleLogout: the stored cart is removed and the page is
\* loaded from '/'
MarketplaceLogout ==
  /\ currentView = "marketplace"
  /\ ~showCheckout
  /\ PageLoaded
  /\ hash' = ""
  /\ cart' = <<>>
  /\ storedCart' = FALSE
  /\ storedItems' = <<>>
  /\ CheckoutUnmounted
  /\ UNCHANGED backendVars

\* the customer reloads the page while the marketplace is shown
ReloadPage ==
  /\ currentView = "marketplace"
  /\ widgets = EmptyBag
  /\ PageLoaded
  /\ cart' = <<>>
  /\ CheckoutUnmounted
  /\ UNCHANGED <<storedCart, storedItems, hash, backendVars>>

\* a customer logs in from the landing view (LoginView's onLogin)
CustomerLogsIn ==
  /\ currentView = "landing"
  /\ handleLogin("customer", otpCalls, submitCalls, adminCalls)
  /\ UNCHANGED backendVars

\* the hash of the address bar changes (typed, or set by the Profile and
\* Dashboard buttons of the baker views): the hashchange listener runs
HashChange(h) ==
  /\ h # hash
  /\ hash' = h
  /\ currentView' = handleHashChange(h, userType, currentView)
  /\ ViewChanged(currentView, handleHashChange(h, userType, currentView),
                 otpCalls, submitCalls, adminCalls)
  /\ UNCHANGED <<userType, backendVars>>

(***************************************************************************)
(* AdminLogin                                                              *)
(***************************************************************************)
\* AdminLogin.handleLogin up to `await apiCall("/admin/login")`
AdminSubmit ==
  /\ currentView = "admin-login"
  /\ ~alLoading
  /\ BagSize(adminCalls) < MaxAuthCalls
  /\ alLoading' = TRUE
  /\ adminCalls' = BagAdd(adminCalls, [mounted |-> TRUE])
  /\ UNCHANGED <<currentView, userType, hash, loginVars, shopVars,
                 reviewSideVars, panelVars, dbNotifs>>

\* POST /admin/login resolved: onLoginSuccess, then the finally block
AdminLoginResolved(c) ==
  /\ BagIn(c, adminCalls)
  /\ handleAdminLoginSuccess(otpCalls, submitCalls, BagRemove(adminCalls, c))
  /\ UNCHANGED backendVars

\* POST /admin/login rejected: the catch block, then the finally block
AdminLoginRejected(c) ==
  /\ BagIn(c, adminCalls)
  /\ adminCalls' = BagRemove(adminCalls, c)
  /\ alLoading' = IF c.mounted THEN FALSE ELSE alLoading
  /\ UNCHANGED <<currentView, userType, hash, loginVars, shopVars,
                 reviewSideVars, panelVars, dbNotifs>>

(***************************************************************************)
(* LoginView                                                               *)
(***************************************************************************)
\* the login form is on screen
LoginForm == currentView = "login" /\ ~showBakerRegistration

\* the email input
SetEmail(e) ==
  /\ LoginForm
  /\ e # email
  /\ email' = e
  /\ UNCHANGED <<appVars, lvUserType, isLogin, showOtpLogin, otpSent,
                 lvLoading, lvError, showBakerRegistration, otpCalls,
                 submitCalls, otpAcked, shopVars, reviewSideVars, panelVars, dbNotifs>>

\* the Customer and Baker buttons
SelectUserType(t) ==
  /\ LoginForm
  /\ t # lvUserType
  /\ lvUserType' = t
  /\ UNCHANGED <<appVars, isLogin, showOtpLogin, otpSent, email,
                 lvLoading, lvError, showBakerRegistration, otpCalls,
                 submitCalls, otpAcked, shopVars, reviewSideVars, panelVars, dbNotifs>>

\* the "Sign up" / "Sign in" link
ToggleIsLogin ==
  /\ LoginForm
  /\ isLogin' = ~isLogin
  /\ lvError' = ""
  /\ UNCHANGED <<appVars, lvUserType, showOtpLogin, otpSent, email,
                 lvLoading, showBakerRegistration, otpCalls,
                 submitCalls, otpAcked, shopVars, reviewSideVars, panelVars, dbNotifs>>

\* handleSwitchToOtp ("Login with OTP instead", shown with the password
\* input of the sign-in form)
handleSwitchToOtp ==
  /\ LoginForm
  /\ isLogin
  /\ ~showOtpLogin
  /\ showOtpLogin' = TRUE
  /\ otpSent' = FALSE
  /\ lvError' = ""
  /\ otpAcked' = {}
  /\ UNCHANGED <<appVars, lvUserType, isLogin, email, lvLoading,
                 showBakerRegistration, otpCalls, submitCalls, shopVars,
                 reviewSideVars, panelVars, dbNotifs>>

\* handleSwitchToPassword ("Login with password instead")
handleSwitchToPassword ==
  /\ LoginForm
  /\ isLogin
  /\ showOtpLogin
  /\ showOtpLogin' = FALSE
  /\ otpSent' = FALSE
  /\ lvError' = ""
  /\ UNCHANGED <<appVars, lvUserType, isLogin, email, lvLoading,
                 showBakerRegistration, otpCalls, submitCalls, otpAcked,
                 shopVars, reviewSideVars, panelVars, dbNotifs>>

\* authAPI.sendOTP: the POST /auth/send-otp request
sendOTP(e) == [method |-> "POST", url |-> "/auth/send-otp", email |-> e]

\* authAPI.verifyOTP: the POST /auth/verify-otp request
verifyOTP(e) == [method |-> "POST", url |-> "/auth/verify-otp", email |-> e]

\* authAPI.login: the POST /auth/login request
login(e) == [method |-> "POST", url |-> "/auth/login", email |-> e]

\* authAPI.register: the POST /auth/register request
register(e) == [method |-> "POST", url |-> "/auth/register", email |-> e]

\* handleSendOtp up to `await authAPI.sendOTP(email)` ("Send OTP" and
\* "Resend OTP", disabled while `loading`)
handleSendOtp ==
  /\ LoginForm
  /\ isLogin
  /\ showOtpLogin
  /\ ~lvLoading
  /\ IF email = ""
     THEN /\ lvError' = "Please enter your email address"
          /\ UNCHANGED <<lvLoading, otpCalls>>
     ELSE /\ BagSize(otpCalls) < MaxAuthCalls
          /\ lvLoading' = TRUE
          /\ lvError' = ""
          /\ otpCalls' = BagAdd(otpCalls, [request |-> sendOTP(email),
                                           mounted |-> TRUE])
  /\ UNCHANGED <<appVars, lvUserType, isLogin, showOtpLogin, otpSent, email,
                 showBakerRegistration, submitCalls, otpAcked, shopVars,
                 reviewSideVars, panelVars, dbNotifs>>

\* sendOTP resolved: setOtpSent(true), the alert, then the finally block
SendOtpResolved(c) ==
  /\ BagIn(c, otpCalls)
  /\ otpCalls' = BagRemove(otpCalls, c)
  /\ IF c.mounted
     THEN /\ otpSent' = TRUE
          /\ lvLoading' = FALSE
          /\ otpAcked' = otpAcked \cup {c.request.email}
     ELSE UNCHANGED <<otpSent, lvLoading, otpAcked>>
  /\ UNCHANGED <<appVars, lvUserType, isLogin, showOtpLogin, email, lvError,
                 showBakerRegistration, submitCalls, shopVars,
                 reviewSideVars, panelVars, dbNotifs>>

\* sendOTP rejected: the catch block, then the finally block
SendOtpRejected(c) ==
  /\ BagIn(c, otpCalls)
  /\ otpCalls' = BagRemove(otpCalls, c)
  /\ IF c.mounted
     THEN lvError' = "Failed to send OTP" /\ lvLoading' = FALSE
     ELSE UNCHANGED <<lvError, lvLoading>>
  /\ UNCHANGED <<appVars, lvUserType, isLogin, showOtpLogin, otpSent, email,
                 showBakerRegistration, submitCalls, otpAcked, shopVars,
                 reviewSideVars, panelVars, dbNotifs>>

\* the submit button is rendered
SubmitButton == ~showOtpLogin \/ otpSent

\* the form can be submitted: by its enabled submit button, or, when no
\* submit button is rendered and the email input is the form's only field,
\* by the Enter key
CanSubmit ==
  \/ SubmitButton /\ ~lvLoading
  \/ ~SubmitButton /\ isLogin

\* the request LoginView.handleSubmit sends ("none": it sends nothing)
submitRequest ==
  IF isLogin
  THEN IF showOtpLogin /\ otpSent THEN verifyOTP(email)
       ELSE IF ~showOtpLogin THEN login(email)
       ELSE "none"
  ELSE register(email)

\* LoginView.handleSubmit up to its await
handleSubmitLogin ==
  /\ LoginForm
  /\ CanSubmit
  /\ lvError' = ""
  /\ IF ~isLogin /\ lvUserType = "baker"
     THEN /\ showBakerRegistration' = TRUE
          /\ UNCHANGED <<lvLoading, submitCalls>>
     ELSE /\ UNCHANGED showBakerRegistration
          /\ IF isLogin /\ showOtpLogin /\ ~otpSent
             THEN /\ lvLoading' = FALSE
                  /\ UNCHANGED submitCalls
             ELSE /\ BagSize(submitCalls) < MaxAuthCalls
                  /\ lvLoading' = TRUE
                  /\ submitCalls' = BagAdd(submitCalls,
                                           [request |-> submitRequest,
                                            mounted |-> TRUE])
  /\ UNCHANGED <<appVars, lvUserType, isLogin, showOtpLogin, otpSent, email,
                 otpCalls, otpAcked, shopVars, reviewSideVars, panelVars, dbNotifs>>

\* the awaited request resolved: onLogin(response.user.user_type)
SubmitResolved(c, type) ==
  /\ BagIn(c, submitCalls)
  /\ handleLogin(type, otpCalls, BagRemove(submitCalls, c), adminCalls)
  /\ UNCHANGED backendVars

\* the awaited request rejected: the catch block, then the finally block
SubmitRejected(c) ==
  /\ BagIn(c, submitCalls)
  /\ submitCalls' = BagRemove(submitCalls, c)
  /\ IF c.mounted
     THEN lvError' = "An error occurred" /\ lvLoading' = FALSE
     ELSE UNCHANGED <<lvError, lvLoading>>
  /\ UNCHANGED <<appVars, lvUserType, isLogin, showOtpLogin, otpSent, email,
                 showBakerRegistration, otpCalls, otpAcked, shopVars,
                 reviewSideVars, panelVars, dbNotifs>>

\* handleBakerRegistrationComplete: onLogin('baker')
handleBakerRegistrationComplete ==
  /\ currentView = "login"
  /\ showBakerRegistration
  /\ handleLogin("baker", otpCalls, submitCalls, adminCalls)
  /\ UNCHANGED backendVars

\* handleBackToLogin
handleBackToLogin ==
  /\ currentView = "login"
  /\ showBakerRegistration
  /\ showBakerRegistration' = FALSE
  /\ UNCHANGED <<appVars, lvUserType, isLogin, showOtpLogin, otpSent, email,
                 lvLoading, lvError, otpCalls, submitCalls, otpAcked,
                 shopVars, reviewSideVars, panelVars, dbNotifs>>

(***************************************************************************)
(* NotificationsPanel of the MarketplaceView                               *)
(***************************************************************************)
NotifIds == 1..NumNotifs

\* a notification; `reply` stands for a title that includes
\* 'replied to your review'
Notification(i, r, t) == [id |-> i, read |-> r, reply |-> t]

\* PUT /notifications/{id}/read
MarkedRead(db, id) ==
  [i \in DOMAIN db |-> IF db[i].id = id THEN [db[i] EXCEPT !.read = TRUE]
                       ELSE db[i]]

\* PUT /notifications/mark-all-read
AllMarkedRead(db) == [i \in DOMAIN db |-> [db[i] EXCEPT !.read = TRUE]]

\* notifications.filter(n => !n.read).length
unreadCount == Cardinality({i \in DOMAIN notifications : ~notifications[i].read})

\* the rest of the state, which no step of the panel touches
panelRest == <<shopVars, reviewSideVars, appVars, loginVars>>

\* the NotificationBell is clicked: setShowNotifications(true); the effect on
\* [isOpen] runs loadNotifications up to `await getNotifications()`
OpenPanel ==
  /\ currentView = "marketplace"
  /\ ~showNotifications
  /\ pnLoadCalls < MaxPanelLoads
  /\ showNotifications' = TRUE
  /\ pnLoading' = TRUE
  /\ pnLoadCalls' = pnLoadCalls + 1
  /\ UNCHANGED <<notifications, markCalls, markAllCalls, markedOk, dbNotifs,
                 panelRest>>

\* onClose, from the backdrop or the X button
ClosePanel ==
  /\ currentView = "marketplace"
  /\ showNotifications
  /\ showNotifications' = FALSE
  /\ UNCHANGED <<notifications, pnLoading, pnLoadCalls, markCalls,
                 markAllCalls, markedOk, dbNotifs, panelRest>>

\* loadNotifications after `await getNotifications()` resolved
LoadNotificationsResolved ==
  /\ pnLoadCalls > 0
  /\ pnLoadCalls' = pnLoadCalls - 1
  /\ notifications' = dbNotifs
  /\ pnLoading' = FALSE
  /\ markedOk' = {}
  /\ UNCHANGED <<showNotifications, markCalls, markAllCalls, dbNotifs,
                 panelRest>>

\* loadNotifications after `await getNotifications()` rejected
LoadNotificationsRejected ==
  /\ pnLoadCalls > 0
  /\ pnLoadCalls' = pnLoadCalls - 1
  /\ pnLoading' = FALSE
  /\ UNCHANGED <<showNotifications, notifications, markCalls, markAllCalls,
                 markedOk, dbNotifs, panelRest>>

\* the list is on the screen and can be clicked
ListShown ==
  /\ currentView = "marketplace"
  /\ showNotifications
  /\ ~pnLoading

\* handleNotificationClick on the i-th entry, unread: handleMarkAsRead up to
\* `await markAsRead(id)`, keeping the `notifications` of this render
ClickUnread(i) ==
  /\ ListShown
  /\ i \in DOMAIN notifications
  /\ ~notifications[i].read
  /\ BagSize(markCalls) < MaxMarkCalls
  /\ markCalls' = BagAdd(markCalls, [id |-> notifications[i].id,
                                     reply |-> notifications[i].reply,
                                     notifications |-> notifications,
                                     mounted |-> TRUE])
  /\ UNCHANGED <<showNotifications, notifications, pnLoading, pnLoadCalls,
                 markAllCalls, markedOk, dbNotifs, panelRest>>

\* handleNotificationClick on the i-th entry, read: no request; a reply
\* notification closes the panel (onClose, onNavigateToReviews)
ClickRead(i) ==
  /\ ListShown
  /\ i \in DOMAIN notifications
  /\ notifications[i].read
  /\ notifications[i].reply
  /\ showNotifications' = FALSE
  /\ UNCHANGED <<notifications, pnLoading, pnLoadCalls, markCalls,
                 markAllCalls, markedOk, dbNotifs, panelRest>>

\* notifications.map(n => n.id === id ? {...n, read: true} : n)
mapRead(ns, id) ==
  [i \in DOMAIN ns |-> IF ns[i].id = id THEN [ns[i] EXCEPT !.read = TRUE]
                       ELSE ns[i]]

\* notifications.map(n => ({...n, read: true}))
mapAllRead(ns) == [i \in DOMAIN ns |-> [ns[i] EXCEPT !.read = TRUE]]

\* handleNotificationClick after handleMarkAsRead returned: a reply
\* notification closes the panel
AfterMarkAsRead(c) ==
  IF c.mounted /\ c.reply THEN showNotifications' = FALSE
  ELSE UNCHANGED showNotifications

\* handleMarkAsRead after `await markAsRead(id)` resolved
MarkAsReadResolved(c) ==
  /\ c \in BagToSet(markCalls)
  /\ markCalls' = BagRemove(markCalls, c)
  /\ dbNotifs' = MarkedRead(dbNotifs, c.id)
  /\ IF c.mounted
     THEN /\ notifications' = mapRead(c.notifications, c.id)
          /\ markedOk' = markedOk \cup {c.id}
     ELSE UNCHANGED <<notifications, markedOk>>
  /\ AfterMarkAsRead(c)
  /\ UNCHANGED <<pnLoading, pnLoadCalls, markAllCalls, panelRest>>

\* handleMarkAsRead after `await markAsRead(id)` rejected (console.error)
MarkAsReadRejected(c) ==
  /\ c \in BagToSet(markCalls)
  /\ markCalls' = BagRemove(markCalls, c)
  /\ AfterMarkAsRead(c)
  /\ UNCHANGED <<notifications, pnLoading, pnLoadCalls, markAllCalls,
                 markedOk, dbNotifs, panelRest>>

\* "Mark all as read", shown while unreadCount > 0: handleMarkAllAsRead up
\* to `await markAllAsRead()`
handleMarkAllAsRead ==
  /\ currentView = "marketplace"
  /\ showNotifications
  /\ unreadCount > 0
  /\ BagSize(markAllCalls) < MaxMarkCalls
  /\ markAllCalls' = BagAdd(markAllCalls, [notifications |-> notifications,
                                           mounted |-> TRUE])
  /\ UNCHANGED <<showNotifications, notifications, pnLoading, pnLoadCalls,
                 markCalls, markedOk, dbNotifs, panelRest>>

\* handleMarkAllAsRead after `await markAllAsRead()` resolved
MarkAllAsReadResolved(c) ==
  /\ c \in BagToSet(markAllCalls)
  /\ markAllCalls' = BagRemove(markAllCalls, c)
  /\ dbNotifs' = AllMarkedRead(dbNotifs)
  /\ IF c.mounted
     THEN /\ notifications' = mapAllRead(c.notifications)
          /\ markedOk' = markedOk \cup {dbNotifs[i].id : i \in DOMAIN dbNotifs}
     ELSE UNCHANGED <<notifications, markedOk>>
  /\ UNCHANGED <<showNotifications, pnLoading, pnLoadCalls, markCalls,
                 panelRest>>

\* handleMarkAllAsRead after `await markAllAsRead()` rejected
MarkAllAsReadRejected(c) ==
  /\ c \in BagToSet(markAllCalls)
  /\ markAllCalls' = BagRemove(markAllCalls, c)
  /\ UNCHANGED <<showNotifications, notifications, pnLoading, pnLoadCalls,
                 markCalls, markedOk, dbNotifs, panelRest>>

(***************************************************************************)
(* Specifications                                                          *)
(***************************************************************************)
\* an order as POST /orders creates it from the cart c
PendingOrder(c) ==
  [status         |-> "pending",
   payment_status |-> "pending",
   items          |-> OrderData(c).items,
   total_amount   |-> OrderData(c).total_amount,
   razorpay_order_id |-> TRUE]

\* CheckoutView as mounted by CartSidebar
InitCheckout ==
  /\ cart \in Carts
  /\ step = "address"
  /\ loading = FALSE
  /\ error = ""
  /\ orderId = 0
  /\ storedCart = TRUE
  /\ storedItems = cart
  /\ showCheckout = TRUE
  /\ addrCalls = 0
  /\ payCalls = EmptyBag
  /\ widgets = EmptyBag
  /\ payUpdCalls = EmptyBag

\* App showing `view` to a user of type `type`, nothing pending, the
\* notifications panel closed
InitViews(view, type) ==
  /\ currentView = view
  /\ userType = type
  /\ hash = ""
  /\ alLoading = FALSE
  /\ adminCalls = EmptyBag
  /\ lvUserType = "customer"
  /\ isLogin = TRUE
  /\ showOtpLogin = FALSE
  /\ otpSent = FALSE
  /\ email = ""
  /\ lvLoading = FALSE
  /\ lvError = ""
  /\ showBakerRegistration = FALSE
  /\ otpCalls = EmptyBag
  /\ submitCalls = EmptyBag
  /\ otpAcked = {}
  /\ showNotifications = FALSE
  /\ notifications = <<>>
  /\ pnLoading = FALSE
  /\ pnLoadCalls = 0
  /\ markCalls = EmptyBag
  /\ markAllCalls = EmptyBag
  /\ markedOk = {}

\* the same, the customer having no notifications
InitFront(view, type) ==
  /\ InitViews(view, type)
  /\ dbNotifs = <<>>

\* BakerDashboardEnhanced as mounted: its effect has called loadDashboardData
InitDashboard ==
  /\ orders = <<>>
  /\ dashLoading = TRUE
  /\ loadCalls = 1
  /\ updCalls = EmptyBag
  /\ dashAlert = ""

\* CustomerProfile as mounted: its effect has called loadProfileData
InitProfile ==
  /\ activeTab = "orders"
  /\ myOrders = <<>>
  /\ myReviews = <<>>
  /\ profLoading = TRUE
  /\ profCalls = SetToBag({[tab |-> "orders"]})
  /\ selectedOrder = NoOrder
  /\ showReviewModal = FALSE
  /\ selectedProduct = 1
  /\ rating = 0
  /\ comment = ""
  /\ submitting = FALSE
  /\ alerted = ""
  /\ reviewCalls = EmptyBag

\* BakerReviewsManagement as mounted: its effect has called fetchReviews
InitBakerReviews ==
  /\ reviews = <<>>
  /\ revLoading = TRUE
  /\ replyingTo = 0
  /\ replyText = ""
  /\ revSubmitting = FALSE
  /\ fetchCalls = 1
  /\ filter = "all"
  /\ replyCalls = EmptyBag

NextCheckout ==
  \/ handleAddressSubmit
  \/ saveAddressResolved
  \/ saveAddressRejected
  \/ ChangeAddress
  \/ handlePayment
  \/ \E c \in BagToSet(payCalls) : ScriptLoaded(c)
  \/ \E c \in BagToSet(payCalls) : ScriptFailed(c)
  \/ \E c \in BagToSet(payCalls) : CreateOrderRejected(c)
  \/ \E c \in BagToSet(payCalls), ref \in BOOLEAN : CreateOrderResolved(c, ref)
  \/ \E w \in BagToSet(widgets) : RazorpaySuccess(w)
  \/ \E w \in BagToSet(widgets) : RazorpayDismiss(w)
  \/ \E c \in BagToSet(payUpdCalls) : PaymentUpdateResolved(c)
  \/ \E c \in BagToSet(payUpdCalls) : PaymentUpdateRejected(c)

NextDashboard ==
  \/ \E i \in 1..MaxOrders : ClickStatusButton(i)
  \/ \E c \in BagToSet(updCalls) : UpdateOrderStatusResolved(c)
  \/ \E c \in BagToSet(updCalls) : UpdateOrderStatusRejected(c)
  \/ LoadDashboardResolved
  \/ LoadDashboardRejected

\* the baker's dashboard on a backend holding pending orders
Init ==
  /\ cart = <<CartItem(1, 2), CartItem(2, 1)>>
  /\ dbOrders = [i \in 1..MaxOrders |-> PendingOrder(cart)]
  /\ dbAddress = FALSE
  /\ notified = "none"
  /\ InitCheckout
  /\ InitDashboard
  /\ dbReviews = <<>>
  /\ InitProfile
  /\ InitBakerReviews
  /\ InitFront("baker-dashboard", "baker")

Next == NextDashboard

Spec == Init /\ [][Next]_vars

\* one checkout on an empty backend
InitCheckoutOnly ==
  /\ dbOrders = <<>>
  /\ dbAddress = FALSE
  /\ notified = "none"
  /\ InitCheckout
  /\ InitDashboard
  /\ dbReviews = <<>>
  /\ InitProfile
  /\ InitBakerReviews
  /\ InitFront("marketplace", "customer")

SpecCheckout == InitCheckoutOnly /\ [][NextCheckout]_vars

\* the marketplace cart, its sidebar and the checkouts opened from it
NextCart ==
  \/ showCheckout /\ NextCheckout
  \/ handleContinueShopping
  \/ onBack
  \/ \E i \in 1..NumProducts : ClickMinus(i)
  \/ \E i \in 1..NumProducts : ClickPlus(i)
  \/ \E i \in 1..NumProducts : ClickRemove(i)
  \/ ProceedToCheckout
  \/ CustomerLogsIn

SpecCart == InitCheckoutOnly /\ [][NextCart]_vars

\* the marketplace as mounted on a stored cart
InitMarket ==
  /\ dbOrders = <<>>
  /\ dbAddress = FALSE
  /\ notified = "none"
  /\ cart \in Carts
  /\ step = "address"
  /\ loading = FALSE
  /\ error = ""
  /\ orderId = 0
  /\ storedCart = TRUE
  /\ storedItems = cart
  /\ showCheckout = FALSE
  /\ addrCalls = 0
  /\ payCalls = EmptyBag
  /\ widgets = EmptyBag
  /\ payUpdCalls = EmptyBag
  /\ InitDashboard
  /\ dbReviews = <<>>
  /\ InitProfile
  /\ InitBakerReviews
  /\ InitFront("marketplace", "customer")

\* the customer's cart: the product grid, the sidebar, the address step of
\* the checkout and page reloads
NextBasket ==
  \/ \E p \in ProductIds : AddToCart(p)
  \/ \E p \in ProductIds : GridMinus(p)
  \/ \E p \in ProductIds : GridPlus(p)
  \/ \E i \in 1..NumProducts : ClickMinus(i)
  \/ \E i \in 1..NumProducts : ClickPlus(i)
  \/ \E i \in 1..NumProducts : ClickRemove(i)
  \/ ProceedToCheckout
  \/ showCheckout /\ handleAddressSubmit
  \/ showCheckout /\ saveAddressResolved
  \/ showCheckout /\ saveAddressRejected
  \/ showCheckout /\ ChangeAddress
  \/ onBack
  \/ ReloadPage
  \/ CustomerLogsIn

\* the marketplace as mounted on a stored cart of one line
InitBasket == InitMarket /\ cart = <<CartItem(1, 1)>>

SpecBasket == InitBasket /\ [][NextBasket]_vars

\* the customer's cart with the whole checkout
NextMarket ==
  \/ \E p \in ProductIds : AddToCart(p)
  \/ \E p \in ProductIds : GridMinus(p)
  \/ \E p \in ProductIds : GridPlus(p)
  \/ ReloadPage
  \/ NextCart

SpecMarket == InitMarket /\ [][NextMarket]_vars

\* the notifications the backend holds, each read or unread: the first may
\* be a baker's reply to a review, the others are order updates
InitNotifs ==
  {[i \in NotifIds |-> Notification(i, r[i], t /\ i = 1)] :
     r \in [NotifIds -> BOOLEAN], t \in BOOLEAN}

\* the marketplace as mounted with an empty cart, the customer having
\* notifications
InitPanel ==
  /\ dbOrders = <<>>
  /\ dbAddress = FALSE
  /\ notified = "none"
  /\ cart = <<>>
  /\ step = "address"
  /\ loading = FALSE
  /\ error = ""
  /\ orderId = 0
  /\ storedCart = TRUE
  /\ storedItems = <<>>
  /\ showCheckout = FALSE
  /\ addrCalls = 0
  /\ payCalls = EmptyBag
  /\ widgets = EmptyBag
  /\ payUpdCalls = EmptyBag
  /\ InitDashboard
  /\ dbReviews = <<>>
  /\ InitProfile
  /\ InitBakerReviews
  /\ InitViews("marketplace", "customer")
  /\ dbNotifs \in InitNotifs

\* the notifications panel, page reloads and logins
NextPanel ==
  \/ OpenPanel
  \/ ClosePanel
  \/ LoadNotificationsResolved
  \/ LoadNotificationsRejected
  \/ \E i \in NotifIds : ClickUnread(i)
  \/ \E i \in NotifIds : ClickRead(i)
  \/ \E c \in BagToSet(markCalls) : MarkAsReadResolved(c)
  \/ \E c \in BagToSet(markCalls) : MarkAsReadRejected(c)
  \/ handleMarkAllAsRead
  \/ \E c \in BagToSet(markAllCalls) : MarkAllAsReadResolved(c)
  \/ \E c \in BagToSet(markAllCalls) : MarkAllAsReadRejected(c)
  \/ ReloadPage
  \/ CustomerLogsIn

SpecPanel == InitPanel /\ [][NextPanel]_vars

\* the page as loaded: the landing view, nobody logged in, no stored cart
InitLanding ==
  /\ dbOrders = <<>>
  /\ dbAddress = FALSE
  /\ notified = "none"
  /\ cart = <<>>
  /\ step = "address"
  /\ loading = FALSE
  /\ error = ""
  /\ orderId = 0
  /\ storedCart = FALSE
  /\ storedItems = <<>>
  /\ showCheckout = FALSE
  /\ addrCalls = 0
  /\ payCalls = EmptyBag
  /\ widgets = EmptyBag
  /\ payUpdCalls = EmptyBag
  /\ InitDashboard
  /\ dbReviews = <<>>
  /\ InitProfile
  /\ InitBakerReviews
  /\ InitFront("landing", "none")

NextLoginView ==
  \/ \E e \in Emails : SetEmail(e)
  \/ \E t \in LoginTypes : SelectUserType(t)
  \/ ToggleIsLogin
  \/ handleSwitchToOtp
  \/ handleSwitchToPassword
  \/ handleSendOtp
  \/ \E c \in BagToSet(otpCalls) : SendOtpResolved(c)
  \/ \E c \in BagToSet(otpCalls) : SendOtpRejected(c)
  \/ handleSubmitLogin
  \/ \E c \in BagToSet(submitCalls), type \in LoginTypes : SubmitResolved(c, type)
  \/ \E c \in BagToSet(submitCalls) : SubmitRejected(c)
  \/ handleBakerRegistrationComplete
  \/ handleBackToLogin

\* one browser page: logins, logouts and hash navigation
NextApp ==
  \/ handleNavigateToLogin
  \/ handleNavigateToAdminLogin
  \/ NextLoginView
  \/ AdminSubmit
  \/ \E c \in BagToSet(adminCalls) : AdminLoginResolved(c)
  \/ \E c \in BagToSet(adminCalls) : AdminLoginRejected(c)
  \/ handleLogout
  \/ MarketplaceLogout
  \/ \E h \in Hashes : HashChange(h)

SpecApp == InitLanding /\ [][NextApp]_vars

\* one checkout and the baker's dashboard on one backend
InitShop ==
  /\ cart = <<CartItem(1, 2), CartItem(2, 1)>>
  /\ dbOrders = <<>>
  /\ dbAddress = FALSE
  /\ notified = "none"
  /\ InitCheckout
  /\ InitDashboard
  /\ dbReviews = <<>>
  /\ InitProfile
  /\ InitBakerReviews
  /\ InitFront("marketplace", "customer")

NextShop ==
  \/ NextCheckout /\ Len(dbOrders') <= MaxShopOrders
  \/ NextDashboard

SpecShop == InitShop /\ [][NextShop]_vars

\* handleUpdateOrderStatus called with any order id and any target status
\* (it is also handed to OrderDetailsModal as onUpdateStatus)
CallUpdateOrderStatus(id, status) ==
  /\ ~dashLoading
  /\ BagSize(updCalls) < MaxApiCalls
  /\ handleUpdateOrderStatus(id, status)

NextStatusApi ==
  \/ \E id \in 1..MaxOrders, status \in Statuses : CallUpdateOrderStatus(id, status)
  \/ \E c \in BagToSet(updCalls) : UpdateOrderStatusResolved(c)
  \/ \E c \in BagToSet(updCalls) : UpdateOrderStatusRejected(c)
  \/ LoadDashboardResolved
  \/ LoadDashboardRejected

SpecStatusApi == Init /\ [][NextStatusApi]_vars

\* a customer's profile on a backend holding one pending order, which the
\* baker advances
InitCustomer ==
  /\ cart = <<CartItem(1, 2), CartItem(2, 1)>>
  /\ dbOrders = <<PendingOrder(cart)>>
  /\ dbAddress = FALSE
  /\ notified = "none"
  /\ InitCheckout
  /\ InitDashboard
  /\ dbReviews = <<>>
  /\ InitProfile
  /\ InitBakerReviews
  /\ InitFront("marketplace", "customer")

NextCustomer ==
  \/ \E tab \in Tabs : SetActiveTab(tab)
  \/ \E c \in BagToSet(profCalls) : ProfileLoadResolved(c)
  \/ \E c \in BagToSet(profCalls) : ProfileLoadRejected(c)
  \/ \E i \in 1..MaxOrders : TrackOrder(i)
  \/ \E i \in 1..MaxOrders : WriteReview(i)
  \/ CloseModal
  \/ \E star \in 1..5 : SetRating(star)
  \/ \E text \in Comments : SetComment(text)
  \/ \E index \in 1..NumProducts : SetSelectedProduct(index)
  \/ handleSubmit
  \/ \E c \in BagToSet(reviewCalls) : ReviewResolved(c)
  \/ \E c \in BagToSet(reviewCalls) : ReviewRejected(c)
  \/ \E id \in 1..MaxOrders : BakerAdvancesOrder(id)

SpecCustomer == InitCustomer /\ [][NextCustomer]_vars

\* the baker's reviews screen on a backend holding reviews of the baker's
\* products, none replied to yet
InitBakerScreen ==
  /\ cart = <<CartItem(1, 2), CartItem(2, 1)>>
  /\ dbOrders = <<[PendingOrder(cart) EXCEPT !.status = "delivered"]>>
  /\ dbAddress = FALSE
  /\ notified = "none"
  /\ InitCheckout
  /\ InitDashboard
  /\ dbReviews = [i \in 1..MaxBakerReviews |->
                    [order |-> 1, product_id |-> 1 + (i % NumProducts), rating |-> 5,
                     comment |-> "ok", baker_reply |-> ""]]
  /\ InitProfile
  /\ InitBakerReviews
  /\ InitFront("baker-dashboard", "baker")

NextBakerReviews ==
  \/ FetchReviewsResolved
  \/ FetchReviewsRejected
  \/ \E f \in {"all", "pending", "replied"} : SetFilter(f)
  \/ \E id \in 1..MaxBakerReviews : ReplyToCustomer(id)
  \/ \E text \in ReplyTexts : SetReplyText(text)
  \/ CancelReply
  \/ \E id \in 1..MaxBakerReviews : handleReply(id)
  \/ \E c \in BagToSet(replyCalls) : ReplyResolved(c)
  \/ \E c \in BagToSet(replyCalls) : ReplyRejected(c)
  \/ \E c \in BagToSet(replyCalls) : ReplyFetchReviewsResolved(c)
  \/ \E c \in BagToSet(replyCalls) : ReplyFetchReviewsRejected(c)
  \/ \E c \in BagToSet(replyCalls) : ReplyFetchStatsSettled(c)

SpecBakerReviews == InitBakerScreen /\ [][NextBakerReviews]_vars

\* the reviews screen inside the dashboard, whose tabs unmount and mount it
NextBakerTabs ==
  \/ NextBakerReviews
  \/ ReopenReviewsTab

SpecBakerTabs == InitBakerScreen /\ [][NextBakerTabs]_vars

\* a customer reviewing a delivered order while the baker's reviews screen
\* is mounted, fetches and is reopened
InitReviewFlow ==
  /\ cart = <<CartItem(1, 2), CartItem(2, 1)>>
  /\ dbOrders = <<[PendingOrder(cart) EXCEPT !.status = "delivered"]>>
  /\ dbAddress = FALSE
  /\ notified = "none"
  /\ InitCheckout
  /\ InitDashboard
  /\ dbReviews = <<>>
  /\ InitProfile
  /\ InitBakerReviews
  /\ InitFront("marketplace", "customer")

NextReviewFlow ==
  \/ \E tab \in Tabs : SetActiveTab(tab)
  \/ \E c \in BagToSet(profCalls) : ProfileLoadResolved(c)
  \/ \E c \in BagToSet(profCalls) : ProfileLoadRejected(c)
  \/ \E i \in 1..MaxOrders : WriteReview(i)
  \/ CloseModal
  \/ \E star \in {1, 5} : SetRating(star)
  \/ \E text \in Comments : SetComment(text)
  \/ handleSubmit
  \/ \E c \in BagToSet(reviewCalls) : ReviewResolved(c)
  \/ \E c \in BagToSet(reviewCalls) : ReviewRejected(c)
  \/ FetchReviewsResolved
  \/ FetchReviewsRejected
  \/ ReopenReviewsTab

SpecReviewFlow == InitReviewFlow /\ [][NextReviewFlow]_vars

(***************************************************************************)
(* Properties                                                              *)
(***************************************************************************)
RECURSIVE SumLineTotals(_)
SumLineTotals(items) ==
  IF items = <<>> THEN 0
  ELSE Head(items).price * Head(items).quantity + SumLineTotals(Tail(items))

\* the line items of a cart snapshot
SnapshotLines(c, items) ==
  /\ Len(items) = Len(c)
  /\ \A i \in 1..Len(c) :
       /\ items[i].product_id = c[i].product.id
       /\ items[i].quantity = c[i].quantity
       /\ items[i].price = c[i].product.price

\* C1: every order the checkout submits carries the line items of one cart
\* snapshot and a total_amount equal to the sum of their price x quantity;
\* the backend stores what was submitted.
C1_TotalIsSumOfLines ==
  /\ \A c \in BagToSet(payCalls) :
       c.pc = "createOrder" =>
         /\ SnapshotLines(c.cart, c.request.body.items)
         /\ c.request.body.total_amount = SumLineTotals(c.request.body.items)
  /\ \A i \in 1..Len(dbOrders) :
       dbOrders[i].total_amount = SumLineTotals(dbOrders[i].items)

\* C1 witness: the order of qty 2 @ 100 plus qty 1 @ 50 is submitted with 250
C1_Witness ==
  \E c \in BagToSet(payCalls) :
    /\ c.pc = "createOrder"
    /\ c.cart = <<CartItem(1, 2), CartItem(2, 1)>>
    /\ c.request.body.total_amount = 250

\* the fixed sequence of order statuses
StatusSuccessor(status) ==
  CASE status = "pending"          -> "confirmed"
    [] status = "confirmed"        -> "preparing"
    [] status = "preparing"        -> "ready"
    [] status = "ready"            -> "out_for_delivery"
    [] status = "out_for_delivery" -> "delivered"
    [] OTHER                       -> "none"

\* C2 (as claimed): every status update applied to an order carries the
\* immediate successor of the status the order has at that moment.
C2_AppliedUpdateIsSuccessor ==
  [][\A c \in BagToSet(updCalls) :
       UpdateOrderStatusResolved(c) =>
         c.request.body.status = StatusSuccessor(dbOrders[c.request.order].status)]_vars

\* C3 (as claimed): a delivered or cancelled order keeps its status.
C3_TerminalIsFinal ==
  [][\A i \in 1..Len(dbOrders) :
       dbOrders[i].status \in Terminal => dbOrders'[i].status = dbOrders[i].status]_vars

\* C4: a payment update is sent only by the success handler of a widget that
\* was opened for a created order with a gateway reference, it marks that
\* order completed, and no widget exists for an order without a reference.
C4_PaymentOnlyAfterGatewayOrder ==
  /\ \A w \in BagToSet(widgets) :
       /\ w.order.id \in 1..Len(dbOrders)
       /\ dbOrders[w.order.id].razorpay_order_id
  /\ \A c \in BagToSet(payUpdCalls) :
       /\ c.request.order = c.order.id
       /\ c.request.order \in 1..Len(dbOrders)
       /\ dbOrders[c.request.order].razorpay_order_id
       /\ c.request.body.payment_status = "completed"
  /\ \A i \in 1..Len(dbOrders) :
       dbOrders[i].payment_status = "completed" => dbOrders[i].razorpay_order_id

\* C4 witness: one order was created without a gateway reference, and the
\* success handler of another order's widget has sent its payment update
C4_Witness ==
  /\ \E i \in 1..Len(dbOrders) : ~dbOrders[i].razorpay_order_id
  /\ payUpdCalls # EmptyBag

\* C9: the update operation sends exactly the order id and status it is
\* given, whatever the order's current status, and that status is persisted.
C9_SendsGivenStatus ==
  [][/\ \A c \in BagToSet(updCalls') :
          /\ c.request.order = c.orderId
          /\ c.request.body.status = c.status
     /\ \A id \in 1..MaxOrders, status \in Statuses :
          CallUpdateOrderStatus(id, status) =>
            \E c \in BagToSet(updCalls') :
              /\ c.orderId = id
              /\ c.request.body.status = status
              /\ CopiesIn(c, updCalls') = CopiesIn(c, updCalls) + 1
     /\ \A c \in BagToSet(updCalls) :
          UpdateOrderStatusResolved(c) => dbOrders'[c.orderId].status = c.status]_vars

\* C9 witness: a rollback to pending is in flight for a delivered order
C9_Witness ==
  \E c \in BagToSet(updCalls) :
    /\ c.request.body.status = "pending"
    /\ dbOrders[c.orderId].status = "delivered"

\* C10: a failed call changes nothing at the backend, sends no request, and
\* leaves the step, the stored cart and the displayed orders as they were.
C10_FailureStaysLocal ==
  [][/\ \A c \in BagToSet(payUpdCalls) :
          PaymentUpdateRejected(c) =>
            /\ dbOrders' = dbOrders
            /\ payUpdCalls' = BagRemove(payUpdCalls, c)
            /\ UNCHANGED <<step, storedCart, orderId, payCalls, widgets, bakerVars>>
     /\ \A c \in BagToSet(payCalls) :
          (CreateOrderRejected(c) \/ ScriptFailed(c)) =>
            /\ dbOrders' = dbOrders
            /\ payCalls' = BagRemove(payCalls, c)
            /\ UNCHANGED <<step, storedCart, orderId, payUpdCalls, widgets, bakerVars>>
     /\ \A c \in BagToSet(updCalls) :
          UpdateOrderStatusRejected(c) =>
            /\ dbOrders' = dbOrders
            /\ orders' = orders
            /\ updCalls' = BagRemove(updCalls, c)
            /\ UNCHANGED <<loadCalls, payCalls, payUpdCalls, widgets>>
     /\ LoadDashboardRejected =>
            /\ dbOrders' = dbOrders
            /\ orders' = orders
            /\ UNCHANGED <<updCalls, payCalls, payUpdCalls, widgets>>]_vars

\* C10 witness: the order was created, its payment update failed, and it is
\* still there, unpaid
C10_Witness ==
  /\ error = "Payment verification failed. Please contact support."
  /\ Len(dbOrders) = 1
  /\ dbOrders[1].payment_status = "pending"
  /\ payUpdCalls = EmptyBag

Reviewed(id, product_id) ==
  \E i \in DOMAIN dbReviews :
    dbReviews[i].order = id /\ dbReviews[i].product_id = product_id

\* C7: once a review of an order item has been accepted, no step submits
\* another review of that same order item.
C7_NoSecondReview ==
  [][BagSize(reviewCalls') > BagSize(reviewCalls) =>
       ~Reviewed(selectedOrder.id,
                 dbOrders[selectedOrder.id].items[selectedProduct].product_id)]_vars

\* C8: every review request sent, and every review stored, carries a rating
\* in 1..5, and a submission whose rating is outside 1..5 (the unset rating 0)
\* sends no request.
C8_RatingInRange ==
  [][/\ \A c \in BagToSet(reviewCalls') : c.request.body.rating \in 1..5
     /\ \A i \in DOMAIN dbReviews' : dbReviews'[i].rating \in 1..5
     /\ rating \notin 1..5 => BagSize(reviewCalls') <= BagSize(reviewCalls)]_vars

\* after one review was stored, a submission with the unset rating and a
\* written comment was turned away with the alert and nothing is in flight
C8_Witness ==
  /\ ModalOpen
  /\ rating = 0
  /\ Trim(comment) # ""
  /\ alerted = "Please select a rating"
  /\ reviewCalls = EmptyBag
  /\ \E i \in DOMAIN dbReviews : dbReviews[i].rating \in 1..5

\* a step in which a network call of the checkout is rejected
CheckoutCallRejected ==
  \/ saveAddressRejected
  \/ \E c \in BagToSet(payCalls) : CreateOrderRejected(c)
  \/ \E c \in BagToSet(payUpdCalls) : PaymentUpdateRejected(c)

\* C11: every rejected network call is surfaced to the user.  In the
\* checkout, every step in which a call is rejected (and that could not
\* also be the call resolving) leaves an error text on the screen.
C11_RejectionSurfaced ==
  [][(CheckoutCallRejected /\ ~saveAddressResolved) => error' # ""]_vars

RECURSIVE Advanced(_)
Advanced(n) == IF n = 0 THEN "pending" ELSE NextButton(Advanced(n - 1))

C14_NoEditNoDelete ==
  [][\A i \in DOMAIN dbReviews :
       /\ i \in DOMAIN dbReviews'
       /\ dbReviews'[i].order = dbReviews[i].order
       /\ dbReviews'[i].product_id = dbReviews[i].product_id
       /\ dbReviews'[i].rating = dbReviews[i].rating
       /\ dbReviews'[i].comment = dbReviews[i].comment
       /\ dbReviews[i].baker_reply # "" =>
            dbReviews'[i].baker_reply = dbReviews[i].baker_reply]_vars

\* the reviews of `revs` that have no baker reply
Unreplied(revs) == {i \in DOMAIN revs : revs[i].baker_reply = ""}

MutatingInFlight ==
  LET posts == {c \in BagToSet(replyCalls) : c.pc = "post"}
  IN BagSize(updCalls) + BagSize(reviewCalls)
       + BagSize([c \in posts |-> replyCalls[c]])

\* a click that sends a mutating request
UserSends ==
  \/ \E i \in 1..MaxOrders : ClickStatusButton(i)
  \/ \E id \in 1..MaxBakerReviews : handleReply(id)
  \/ handleSubmit

\* C16: no failed request is retried automatically.  A mutating request is
\* put in flight only by a user's click, one request per click; the step in
\* which a request fails puts none in flight and changes nothing on the
\* backend.
C16_NoAutomaticRetry ==
  [][/\ MutatingInFlight' > MutatingInFlight =>
          (UserSends /\ MutatingInFlight' = MutatingInFlight + 1)
     /\ \A c \in BagToSet(updCalls) :
          UpdateOrderStatusRejected(c) =>
            /\ MutatingInFlight' = MutatingInFlight - 1
            /\ dbOrders' = dbOrders]_vars

\* an update has failed with its alert, nothing is in flight and no order has
\* changed on the backend
C16_Witness ==
  /\ dashAlert = "Failed to update order status"
  /\ updCalls = EmptyBag
  /\ ~dashLoading
  /\ \A i \in DOMAIN dbOrders : dbOrders[i].status = "pending"

\* C17: a status transition fires the customer notification without
\* depending on it.  Every accepted update stores the status it carries and
\* fires the notification, whether the notification is sent or fails, and no
\* step changes an order because a notification failed.
C17_TransitionIndependentOfNotification ==
  [][/\ \A c \in BagToSet(updCalls) :
          UpdateOrderStatusResolved(c) =>
            /\ notified' \in {"sent", "failed"}
            /\ dbOrders'[c.request.order].status = c.request.body.status
     /\ (notified' = "failed" /\ dbOrders' # dbOrders) =>
          \E c \in BagToSet(updCalls) :
            dbOrders' = DbSetStatus(c.request.order, c.request.body)]_vars

\* the notification of a transition failed and the dashboard, reloaded,
\* shows the order in the status that was set
C17_Witness ==
  /\ notified = "failed"
  /\ ~dashLoading
  /\ updCalls = EmptyBag
  /\ \E i \in DOMAIN orders :
       orders[i].status = "confirmed" /\ dbOrders[orders[i].id].status = "confirmed"

\* a payment attempt of this checkout is unresolved: handlePayment is
\* running, its widget is open, or its success callback has not finished
AttemptUnresolved ==
  payCalls # EmptyBag \/ widgets # EmptyBag \/ payUpdCalls # EmptyBag

\* C18 (as claimed): while a payment attempt is unresolved Pay cannot be
\* pressed again, so no second order is created: no step starts
\* handlePayment, and no step creates an order, while another attempt is
\* unresolved.
C18_PayDisabledWhileUnresolved ==
  [][/\ BagSize(payCalls') > BagSize(payCalls) => ~AttemptUnresolved
     /\ Len(dbOrders') > Len(dbOrders) =>
          (widgets = EmptyBag /\ payUpdCalls = EmptyBag)]_vars

InCart(c) == {c[i].product.id : i \in 1..Len(c)}

\* product ids of the items of the orders whose payment is completed
PaidIds ==
  UNION {{dbOrders[o].items[j].product_id : j \in 1..Len(dbOrders[o].items)} :
           o \in {i \in 1..Len(dbOrders) :
                    dbOrders[i].payment_status = "completed"}}

\* C20: after a successful payment, once the success view is no longer on
\* screen, no paid item is in the marketplace cart nor in the stored cart
\* (the customer adds no product in this specification, so a paid product
\* in the cart is a paid item that stayed or came back).
C20_PaidItemsGone ==
  ~SuccessShown =>
     /\ InCart(cart) \cap PaidIds = {}
     /\ InCart(loadCartFromStorage) \cap PaidIds = {}

\* C21: submitting the address form advances the checkout to the payment
\* step whether the address save succeeds or fails: every step in which a
\* pending saveAddress call settles leaves the checkout on the payment step.
C21_AddressSubmitAdvances ==
  [][addrCalls' < addrCalls => step' = "payment"]_vars

\* the payment step was reached although no address was saved
C21_Witness ==
  /\ step = "payment"
  /\ addrCalls = 0
  /\ dbAddress = FALSE

\* C22: access to views is role-based.  Whenever the baker dashboard or the
\* baker profile is displayed the user type is baker, whenever the admin
\* dashboard is displayed it is admin, and whenever the marketplace is
\* displayed it is customer.
C22_ViewsMatchUserType ==
  /\ currentView \in {"baker-dashboard", "baker-profile"} => userType = "baker"
  /\ currentView = "admin-dashboard" => userType = "admin"
  /\ currentView = "marketplace" => userType = "customer"

\* a customer navigated to the baker's profile hash and stays on the
\* marketplace
C22_Witness ==
  /\ hash = "profile"
  /\ userType = "customer"
  /\ currentView = "marketplace"

\* a verification request is sent in this step
VerifySent(c) ==
  /\ c.request.url = "/auth/verify-otp"
  /\ CopiesIn(c, submitCalls') > CopiesIn(c, submitCalls)

\* C23: an OTP verification request is sent only after an OTP request for
\* the same email address succeeded since OTP login mode was last entered,
\* and every switch between password and OTP mode leaves no OTP marked as
\* sent.
C23_VerifyOnlyAfterOtp ==
  [][/\ \A c \in BagToSet(submitCalls') :
          VerifySent(c) => c.request.email \in otpAcked
     /\ showOtpLogin' # showOtpLogin => ~otpSent']_vars

\* every line of cart c has quantity at least 1
QuantitiesPositive(c) == \A i \in 1..Len(c) : c[i].quantity >= 1

\* C24: every item in the cart has quantity at least 1, in the cart state
\* and in its stored snapshot, and a minus button on a line of quantity 1
\* removes the line.
C24_QuantityAtLeastOne ==
  /\ [](QuantitiesPositive(cart) /\ QuantitiesPositive(storedItems))
  /\ [][\A p \in ProductIds :
          (getProductQuantityInCart(cart, p) = 1 /\ GridMinus(p)) =>
             p \notin InCart(cart')]_vars

\* the last line of the cart was removed: the marketplace shows an empty
\* cart that is stored, and nothing has been ordered
C24_Witness ==
  /\ currentView = "marketplace"
  /\ cart = <<>>
  /\ storedCart
  /\ storedItems = <<>>
  /\ dbOrders = <<>>

\* C25: the cart holds at most one line per product id, and adding a
\* product that is in the cart raises its quantity by one without adding a
\* line.
C25_OneLinePerProduct ==
  /\ [](Cardinality(InCart(cart)) = Len(cart))
  /\ [][\A p \in ProductIds :
          (p \in InCart(cart) /\ AddToCart(p)) =>
             /\ Len(cart') = Len(cart)
             /\ getProductQuantityInCart(cart', p) =
                  getProductQuantityInCart(cart, p) + 1]_vars

\* product 1 was added to the cart that held it and product 2 was added
\* after it: two lines, the first with a raised quantity
C25_Witness ==
  /\ Len(cart) = 2
  /\ cart[1] = CartItem(1, 2)
  /\ cart[2] = CartItem(2, 1)

\* C26: whenever the marketplace is shown and no call of its checkout is
\* pending, the stored cart snapshot is present and equals the cart state;
\* and a step that mounts the marketplace leaves the cart that was stored.
C26_SnapshotEqualsCart ==
  /\ []((currentView = "marketplace" /\ CheckoutIdle) =>
          (storedCart /\ storedItems = cart))
  /\ [][(currentView # "marketplace" /\ currentView' = "marketplace") =>
          cart' = loadCartFromStorage]_vars

\* C27: once a mark-as-read request for a notification has succeeded, the
\* panel shows that notification as read until the notifications are
\* loaded again, also when several mark-as-read requests overlap
C27_MarkedStaysRead ==
  showNotifications =>
    \A i \in DOMAIN notifications :
      notifications[i].id \in markedOk => notifications[i].read

====
